---- MODULE Spec2Model ----
(***************************************************************************)
(* A model of openshift/operator-framework-tooling: the v0 (monorepo) and  *)
(* v1 (direct-mirror) synchronisation engines of pkg/v0/cmd.go and         *)
(* pkg/v1/cmd.go.  External tools (git, go) are modelled by what the       *)
(* commands the code runs do to the repositories they run in.              *)
(***************************************************************************)
EXTENDS Integers, Sequences, FiniteSets, TLC

(***************************************************************************)
(* Bounds of the model.                                                    *)
(***************************************************************************)
\* most commits collected over all repositories in one interleave
MaxCommits == 5
\* most commits collected for one repository
MaxRepoCommits == 3
\* commit dates are 1..MaxDate
MaxDate == 5
\* commits on the master branch of every upstream repository
UpstreamLen == 2
\* largest value of the -history option
MaxHistory == 2
\* invocations of the tool, one after another
MaxRuns == 2
MaxCarries == 2
MaxDrops == 2

(***************************************************************************)
(* Generic helpers.                                                        *)
(***************************************************************************)
Range(s) == {s[i] : i \in DOMAIN s}

RECURSIVE Reverse(_)
Reverse(s) == IF s = <<>> THEN <<>> ELSE Append(Reverse(Tail(s)), Head(s))

\* all sequences without repetition that enumerate the finite set S
RECURSIVE Perms(_)
Perms(S) ==
  IF S = {} THEN {<<>>}
  ELSE UNION {{<<x>> \o p : p \in Perms(S \ {x})} : x \in S}

\* the sequences over S of length 0..n
RECURSIVE SeqsUpTo(_, _)
SeqsUpTo(S, n) ==
  IF n = 0 THEN {<<>>}
  ELSE LET shorter == SeqsUpTo(S, n - 1)
       IN  shorter \cup {Append(s, x) : s \in {t \in shorter : Len(t) = n - 1}, x \in S}

\* a map with no key (a Go map that was just made)
EmptyMap == [k \in {} |-> 0]

(***************************************************************************)
(* v0: the staging directories of the monorepo and their upstreams.        *)
(***************************************************************************)
Repos == {"api", "operator-lifecycle-manager"}

\* the zero value of a Go string: nextRepo before any repository is selected
NoRepo == ""

Dates == 1..MaxDate

\* internal.Commit, as far as v0 reads it.  Hash k of a repository is the
\* k-th commit of that repository's history (1 is the oldest).
MkCommit(repo, hash, date) == [Hash |-> hash, Date |-> date, Repo |-> repo]

VARIABLES
  pc,              \* where the run is
  now,             \* time.Now() of the run
  commits,         \* detectNewCommits: repo -> commits as git log lists them (newest first)
  indices,         \* detectNewCommits: repo -> index (0-based) of its next unconsumed commit
  orderedCommits,  \* detectNewCommits: the interleaved list being built
  reversedCommits, \* detectNewCommits: the list it returns
  \* the repositories the v0 tool works on; they outlive a run
  history,         \* the commits of the checked-out downstream branch, oldest first
  central,         \* how many of them the central ref (origin/master) has
  objs,            \* repo -> the upstream commits in the local object store
  refs,            \* repo -> the upstream commit its fetch reference resolves to
  file,            \* the commits file: NoFile or a list of commits
  run,             \* number of the invocation
  \* one v0 run
  opts,            \* Options of the run
  lastCommits,     \* detectNewCommits: repo -> last commit synchronized with staging
  todo,            \* detectNewCommits: repositories the collecting loop has still to visit
  warned,          \* repositories with the "downstream has moved beyond" warning
  runCommits,      \* Run: commits
  missingCommits,  \* Run: missingCommits
  picked,          \* the commits this run's cherryPick calls completed
  pushed,          \* MinimalGitPush was called and succeeded
  prCommits,       \* NoPR, or the commits UpdatePullRequestWithLabels got in the body
  cherryPickOutput, \* the conflicts the output of this run's last git cherry-pick named
  \* the repositories the v1 tool works on, and one v1 run
  upstream,        \* repo -> the messages of the commits of upstream main, oldest first
  main,            \* repo -> downstream main: the upstream commit it has merged, the commits on top
  synchronize,     \* repo -> the branch synchronize that applyConfig leaves
  version,         \* the catalogd commit that the go.mod of operator-controller requires
  v1opts,          \* v1 Options of the run
  target,          \* detectNewCommits: repo -> Config
  pending,         \* repositories a "for repo, config := range commits" loop has still to visit
  published,       \* repositories whose pull request UpdatePullRequestWithLabels updated
  checkout,        \* repo -> what is checked out in its directory
  applied,         \* repositories whose applyConfig returned nil in this run
  replaced,        \* dependencies "go mod edit -replace" pointed at the fork in this run
  pushedRepos,     \* repositories whose branch MinimalGitPush pushed in this run
  conflicted,      \* <<repo, hash>> of the carries whose git cherry-pick failed in this run
  prompted,        \* <<repo, hash>> of the carries at which this run asked the operator
  answers,         \* <<repo, hash, answer>> of what the operator answered there
  followups,       \* <<repo, hash>> of the carries whose follow-up commands this run went on to
  checkerWritten,  \* repositories where this run wrote commitchecker.yaml to the working directory
  manifests,       \* repo -> what this run did last to openshift/manifests
  \* one call of a function of the tools on its own
  arg,             \* the string the function is called with, as a sequence of tokens
  ret,             \* NotCalled, or what the function returned
  cancelled        \* the context of the run is cancelled: os.Interrupt has arrived

ivars == <<now, commits, indices, orderedCommits, reversedCommits>>
evars == <<history, central, objs, refs, file, run>>
rvars == <<opts, lastCommits, todo, warned, runCommits, missingCommits, picked, pushed, prCommits,
          cherryPickOutput>>
replayvars == <<conflicted, prompted, answers, followups, checkerWritten, manifests>>
callvars == <<arg, ret>>
v1vars == <<upstream, main, synchronize, version, v1opts, target, pending, published,
            checkout, applied, replaced, pushedRepos, replayvars, callvars, cancelled>>
vars == <<pc, ivars, evars, rvars, v1vars>>

V1Repos == {"operator-controller", "catalogd"}

\* a repository without a branch synchronize
\* the head of a branch that no git merge made
NoMerge == [parents |-> <<>>, tree |-> [upstream |-> 0, patches |-> <<>>]]

NoBranch == [exists |-> FALSE, target |-> 0, merge |-> NoMerge, carries |-> <<>>]

\* no applyConfig has run in this run
\* no function is called on its own
NotCalled == [called |-> FALSE]
NoCall == arg = <<>> /\ ret = NotCalled

NothingReplayed ==
  /\ conflicted = {}
  /\ prompted = {}
  /\ answers = {}
  /\ followups = {}
  /\ checkerWritten = {}
  /\ manifests = [r \in V1Repos |-> "untouched"]

\* the v1 variables where the v0 tool runs
IdleV1 ==
  /\ upstream = [r \in V1Repos |-> <<>>]
  /\ main = [r \in V1Repos |-> [base |-> 0, carries |-> <<>>]]
  /\ synchronize = [r \in V1Repos |-> NoBranch]
  /\ version = 0
  /\ v1opts = [mode |-> "summarize", forceRemerge |-> FALSE, listDropCommits |-> <<>>,
               delayManifestGeneration |-> FALSE, pauseOnCherryPickError |-> FALSE,
                 input |-> FALSE, output |-> FALSE]
  /\ target = EmptyMap
  /\ pending = {}
  /\ published = {}
  /\ checkout = [r \in V1Repos |-> "main"]
  /\ applied = {}
  /\ replaced = {}
  /\ pushedRepos = {}
  /\ NothingReplayed

(***************************************************************************)
(* detectNewCommits, the interleave (pkg/v0/cmd.go 452-495).               *)
(***************************************************************************)
\* the inner loop "for repo, index := range indices" run over the
\* repositories in the order `order`; acc is <<nextTime, nextRepo>>
RECURSIVE ScanIndices(_, _, _, _)
ScanIndices(order, cs, idx, acc) ==
  IF order = <<>> THEN acc
  ELSE LET repo == Head(order)
           c    == cs[repo][idx[repo] + 1]
       IN  IF c.Date < acc[1]
           THEN ScanIndices(Tail(order), cs, idx, <<c.Date, repo>>)
           ELSE ScanIndices(Tail(order), cs, idx, acc)

\* the repository the loop body selects when the map is ranged over in `order`
NextRepo(order, cs, idx, t) == ScanIndices(order, cs, idx, <<t, NoRepo>>)[2]

\* housekeeping of the index records after popping nextRepo's commit
AdvanceIndices(cs, idx, repo) ==
  IF idx[repo] = Len(cs[repo]) - 1
  THEN [r \in DOMAIN idx \ {repo} |-> idx[r]]
  ELSE [idx EXCEPT ![repo] = idx[repo] + 1]

\* "No commits? No work.": the map has no key
NoWork ==
  /\ pc = "collected"
  /\ DOMAIN commits = {}
  /\ pc' = "detected"
  /\ reversedCommits' = <<>>
  /\ UNCHANGED <<now, commits, indices, orderedCommits, evars, rvars, v1vars>>

\* indices[repo] = 0 for every repository that has commits
StartInterleave ==
  /\ pc = "collected"
  /\ DOMAIN commits # {}
  /\ indices' = [r \in DOMAIN commits |-> 0]
  /\ orderedCommits' = <<>>
  /\ pc' = "interleave"
  /\ UNCHANGED <<now, commits, reversedCommits, evars, rvars, v1vars>>

\* one iteration of the for loop; Go ranges over a map in an unspecified order
InterleaveStep ==
  /\ pc = "interleave"
  /\ \E order \in Perms(DOMAIN indices) :
       LET nextRepo == NextRepo(order, commits, indices, now)
       IN  IF nextRepo \notin DOMAIN commits
           THEN \* commits[""] is a nil slice: index out of range
                /\ pc' = "panic"
                /\ UNCHANGED <<indices, orderedCommits>>
           ELSE /\ orderedCommits' =
                     Append(orderedCommits, commits[nextRepo][indices[nextRepo] + 1])
                /\ indices' = AdvanceIndices(commits, indices, nextRepo)
                /\ pc' = IF DOMAIN indices' = {} THEN "reverse" ELSE "interleave"
  /\ UNCHANGED <<now, commits, reversedCommits, evars, rvars, v1vars>>

\* a slip the reversal could have: the interleaved list returned as it was built
ReversalForgotten(ordered) == ordered

\* the loop that fills reversedCommits from orderedCommits
ReversedList(ordered) == Reverse(ordered)

\* "our ordered list is descending, but we need to cherry-pick from the oldest first"
ReverseOrdered ==
  /\ pc = "reverse"
  /\ reversedCommits' = ReversedList(orderedCommits)
  /\ pc' = "detected"
  /\ UNCHANGED <<now, commits, indices, orderedCommits, evars, rvars, v1vars>>

(***************************************************************************)
(* v0: git, as far as the commands of Run and detectNewCommits read and    *)
(* change it.  An upstream repository has the commits 1..UpstreamLen on    *)
(* master (1 is the oldest) and one commit that history rewriting removed  *)
(* from it.                                                                *)
(***************************************************************************)
Hashes == 1..UpstreamLen

\* a commit that upstream no longer has on master (force-pushed away)
OrphanHash == 0

\* lastCommit == "": commitRegex found no hash
NoHash == -1

\* the commits git reaches from upstream commit h
Ancestors(h) == IF h = OrphanHash THEN {OrphanHash} ELSE 1..h

\* the committer date (%cI) of an upstream commit
UpstreamDate(repo, h) == h

\* a commit of the downstream monorepo: the Upstream-repository and
\* Upstream-commit trailers it carries (Marked) and whether it changes a
\* file under staging/<Repo>
DownCommit(repo, hash, touches, marked) ==
  [Repo |-> repo, Hash |-> hash, Touches |-> touches, Marked |-> marked]

\* a commits file, and the pull request of the bot, that do not exist
NoFile == [exists |-> FALSE, commits |-> <<>>]
NoPR == [exists |-> FALSE, commits |-> <<>>]

Modes == {"summarize", "synchronize", "publish"}

\* Options: Mode, CommitFileInput # "", CommitFileOutput # "", history
OptionSets ==
  [mode : Modes, input : BOOLEAN, output : BOOLEAN, history : 1..MaxHistory]

Max(S) == CHOOSE x \in S : \A y \in S : y <= x
Min(S) == CHOOSE x \in S : \A y \in S : x <= y

\* the elements of a finite set of integers, largest first
RECURSIVE Descending(_)
Descending(S) == IF S = {} THEN <<>> ELSE <<Max(S)>> \o Descending(S \ {Max(S)})

\* git log <ref> --grep "Upstream-repository: <path>" --grep "Upstream-commit"
\* --all-match -- staging/<path>: the commits of the first n commits of hist
\* that carry both markers and change a file under staging/<path>
MarkerCommits(hist, n, path) ==
  {i \in 1..n : hist[i].Marked /\ hist[i].Repo = path /\ hist[i].Touches}

\* where nothing is found, the first upstream commit is the boundary
LastCommitOrBeginning(hist, n, path, h) ==
  LET m     == MarkerCommits(hist, n, path)
      shown == {i \in m : Cardinality({j \in m : j > i}) < h}
  IN  IF shown = {} THEN 1 ELSE hist[Min(shown)].Hash

\* the history option is ignored: the newest match is the boundary
NewestMatch(hist, n, path, h) ==
  LET m == MarkerCommits(hist, n, path)
  IN  IF m = {} THEN NoHash ELSE hist[Max(m)].Hash

\* ... -n <h> --pretty=%B --reverse, then commitRegex.FindStringSubmatch: git
\* takes the h newest matches and prints them oldest first; the regexp
\* takes the first Upstream-commit of that output
LastCommitOf(hist, n, path, h) ==
  LET m     == MarkerCommits(hist, n, path)
      shown == {i \in m : Cardinality({j \in m : j > i}) < h}
  IN  IF shown = {} THEN NoHash ELSE hist[Min(shown)].Hash

\* fs.WalkDir visits the directories of the staging directory in lexical order
WalkOrder == <<"api", "operator-lifecycle-manager">>

\* git log --pretty=%H --no-merges <last>...FETCH_HEAD: the commits reachable
\* from one of the two and not from both, newest first
SymmetricDifference(last, head) ==
  Descending((Ancestors(last) \cup Ancestors(head)) \ (Ancestors(last) \cap Ancestors(head)))

\* the log never succeeds
LogAlwaysFails(last, known) == FALSE

\* that git log succeeds: it fails with "Invalid symmetric difference
\* expression" when <last> names no object of the local repository
LogSucceeds(last, known) == last \in known

\* internal.Info of every line of that output, with commit.Repo set
InfoOf(repo, lines) ==
  [i \in 1..Len(lines) |-> MkCommit(repo, lines[i], UpstreamDate(repo, lines[i]))]

\* isCommitMissing: git log -n 1 --grep "Upstream-repository: <Repo>" --grep
\* "Upstream-commit: <Hash>" --all-match -- staging/<Repo> on the checked-out
\* branch prints nothing
IsCommitMissing(hist, c) ==
  ~ \E i \in 1..Len(hist) :
      hist[i].Marked /\ hist[i].Repo = c.Repo /\ hist[i].Hash = c.Hash /\ hist[i].Touches

\* what a git cherry-pick can report: the two shapes cherryPick recovers
\* from, and any other conflict
ConflictKinds == {"vendor/modules.txt deleted", "go.mod conflict", "other conflict"}

\* continueCherryPick: the output names one of the two known shapes
ContinueCherryPick(conflicts) ==
  "vendor/modules.txt deleted" \in conflicts \/ "go.mod conflict" \in conflicts

\* a cherry-pick that lands whatever the conflict was
LandsAnyway(conflicts) == TRUE

\* git cherry-pick (and, after a recovery, git cherry-pick --continue, which
\* git refuses while a path is still unmerged) left a commit at HEAD
CherryPickLanded(conflicts) ==
  \/ conflicts = {}
  \/ ContinueCherryPick(conflicts) /\ "other conflict" \notin conflicts

(***************************************************************************)
(* v0: Run (pkg/v0/cmd.go 89-196) and detectNewCommits (318-451).          *)
(***************************************************************************)
\* the values the locals of a run have before it starts
FreshRun ==
  /\ commits' = EmptyMap
  /\ indices' = EmptyMap
  /\ orderedCommits' = <<>>
  /\ reversedCommits' = <<>>
  /\ lastCommits' = EmptyMap
  /\ todo' = {}
  /\ warned' = {}
  /\ runCommits' = <<>>
  /\ missingCommits' = <<>>
  /\ picked' = <<>>
  /\ pushed' = FALSE
  /\ prCommits' = NoPR
  /\ cherryPickOutput' = {}

\* json.Marshal of an internal.Commit: the date always, the hash and the
\* repository unless they are empty (the tags of the fields)
MarshalCommit(c) ==
  [k \in {"date"} \cup (IF c.Hash = NoHash THEN {} ELSE {"hash"})
                   \cup (IF c.Repo = "" THEN {} ELSE {"repo"}) |->
     IF k = "date" THEN c.Date ELSE IF k = "hash" THEN c.Hash ELSE c.Repo]

MarshalCommits(list) == [i \in 1..Len(list) |-> MarshalCommit(list[i])]

\* json.Unmarshal into an internal.Commit: a field that is not there is empty
UnmarshalCommit(j) ==
  MkCommit(IF "repo" \in DOMAIN j THEN j["repo"] ELSE "",
           IF "hash" \in DOMAIN j THEN j["hash"] ELSE NoHash,
           j["date"])

UnmarshalCommits(json) == [i \in 1..Len(json) |-> UnmarshalCommit(json[i])]

\* CommitFileInput is set: the commits are read from the file
ReadCommitsFile ==
  /\ pc = "start"
  /\ opts.input
  /\ IF file = NoFile
     THEN pc' = "failed" /\ UNCHANGED runCommits
     ELSE pc' = "loaded" /\ runCommits' = UnmarshalCommits(file.commits)
  /\ UNCHANGED <<ivars, evars, opts, lastCommits, todo, warned, missingCommits,
                 picked, pushed, prCommits,
                 cherryPickOutput, v1vars>>

\* resolveCentralRef and calculateRepoRefs: upstream operator-lifecycle-manager
\* master and the tag of every dependency are fetched
CalculateRepoRefs ==
  /\ pc = "start"
  /\ ~opts.input
  /\ objs' = [r \in Repos |-> objs[r] \cup Ancestors(refs[r])]
  /\ pc' = "walk"
  /\ UNCHANGED <<ivars, history, central, refs, file, run, rvars, v1vars>>

\* the walk over the staging directory, from the directory at position k on
RECURSIVE WalkFrom(_, _)
WalkFrom(k, found) ==
  IF k > Len(WalkOrder) THEN [fatal |-> FALSE, lastCommits |-> found]
  ELSE LET path == WalkOrder[k]
           lastCommit == LastCommitOf(history, central, path, opts.history)
       IN  IF lastCommit = NoHash
           THEN \* walkLogger.Fatal: the process exits
                [fatal |-> TRUE, lastCommits |-> found]
           ELSE WalkFrom(k + 1, [r \in DOMAIN found \cup {path} |->
                                   IF r = path THEN lastCommit ELSE found[r]])

WalkStaging ==
  /\ pc = "walk"
  /\ LET w == WalkFrom(1, EmptyMap)
     IN  /\ lastCommits' = w.lastCommits
         /\ todo' = IF w.fatal THEN {} ELSE DOMAIN w.lastCommits
         /\ pc' = IF w.fatal THEN "fatal" ELSE "collect"
  /\ UNCHANGED <<ivars, evars, opts, warned, runCommits, missingCommits,
                 picked, pushed, prCommits,
                 cherryPickOutput, v1vars>>

\* one iteration of "for repo, lastCommit := range lastCommits"
CollectRepo(repo) ==
  /\ pc = "collect"
  /\ repo \in todo
  /\ LET lastCommit == lastCommits[repo]
         fetched    == objs[repo] \cup Ancestors(refs[repo])
         withMaster == fetched \cup Ancestors(UpstreamLen)
         found      == InfoOf(repo, SymmetricDifference(lastCommit, refs[repo]))
     IN  IF LogSucceeds(lastCommit, fetched)
         THEN \* err == nil
              /\ objs' = [objs EXCEPT ![repo] = fetched]
              /\ commits' = IF found = <<>> THEN commits
                            ELSE [r \in DOMAIN commits \cup {repo} |->
                                    IF r = repo THEN found ELSE commits[r]]
              /\ todo' = todo \ {repo}
              /\ pc' = IF todo' = {} THEN "collected" ELSE "collect"
              /\ UNCHANGED warned
         ELSE \* "Invalid symmetric difference expression": master is fetched
              \* and the log is run again
              /\ objs' = [objs EXCEPT ![repo] = withMaster]
              /\ IF LogSucceeds(lastCommit, withMaster)
                 THEN /\ warned' = warned \cup {repo}
                      /\ todo' = todo \ {repo}
                      /\ pc' = IF todo' = {} THEN "collected" ELSE "collect"
                 ELSE \* still an error: the original error is returned
                      /\ pc' = "fatal"
                      /\ UNCHANGED <<warned, todo>>
              /\ UNCHANGED commits
  /\ UNCHANGED <<now, indices, orderedCommits, reversedCommits, history, central,
                 refs, file, run, opts, lastCommits, runCommits, missingCommits,
                 picked, pushed, prCommits,
                 cherryPickOutput, v1vars>>

\* the commits of list that isCommitMissing reports missing
MissingOf(hist, list) == SelectSeq(list, LAMBDA c : IsCommitMissing(hist, c))

\* Run, from the isCommitMissing loop to the mode switch
\* the run goes on to the switch on the mode whatever is missing
WithoutShortCircuit(missing, mode) == IF mode = "summarize" THEN "summarize" ELSE "pick"

\* "if len(missingCommits) == 0 { return nil }", then the switch on the mode
AfterFilter(missing, mode) ==
  IF missing = <<>> THEN "done"
  ELSE IF mode = "summarize" THEN "summarize" ELSE "pick"

FilterMissing ==
  /\ pc \in {"detected", "loaded"}
  /\ LET list    == IF pc = "detected" THEN reversedCommits ELSE runCommits
         missing == MissingOf(history, list)
     IN  /\ runCommits' = list
         /\ missingCommits' = missing
         /\ file' = IF opts.output
                    THEN [exists |-> TRUE, commits |-> MarshalCommits(missing)]
                    ELSE file
         /\ pc' = AfterFilter(missing, opts.mode)
  /\ UNCHANGED <<ivars, history, central, objs, refs, run, opts, lastCommits, todo,
                 warned, picked, pushed, prCommits,
                 cherryPickOutput, v1vars>>

\* case flags.Summarize: internal.Table
Summarize ==
  /\ pc = "summarize"
  /\ pc' = "done"
  /\ UNCHANGED <<ivars, evars, rvars, v1vars>>

\* one call of cherryPick by cherryPickAll
CherryPick ==
  /\ pc = "pick"
  /\ LET c == missingCommits[Len(picked) + 1]
     IN  \E conflicts \in SUBSET ConflictKinds, touches \in BOOLEAN, commandsOk \in BOOLEAN :
           /\ cherryPickOutput' = conflicts
           /\ IF ~CherryPickLanded(conflicts)
              THEN \* cherryPick returns the error, Run ends with logger.Fatal
                   pc' = "fatal" /\ UNCHANGED <<history, picked>>
              ELSE IF ~commandsOk
              THEN \* a go mod, make or git command after the cherry-pick fails:
                   \* the commit is there, the trailers are not
                   /\ history' = Append(history, DownCommit(c.Repo, c.Hash, touches, FALSE))
                   /\ pc' = "fatal"
                   /\ UNCHANGED picked
              ELSE /\ history' = Append(history, DownCommit(c.Repo, c.Hash, touches, TRUE))
                   /\ picked' = Append(picked, c)
                   /\ pc' = IF Len(picked') < Len(missingCommits) THEN "pick"
                            ELSE IF opts.mode = "publish" THEN "push" ELSE "done"
  /\ UNCHANGED <<ivars, central, objs, refs, file, run, opts, lastCommits, todo,
                 warned, runCommits, missingCommits, pushed, prCommits, v1vars>>

\* bumper.MinimalGitPush
Push ==
  /\ pc = "push"
  /\ \E ok \in BOOLEAN :
       IF ok THEN pushed' = TRUE /\ pc' = "pr"
             ELSE pc' = "failed" /\ UNCHANGED pushed
  /\ UNCHANGED <<ivars, evars, opts, lastCommits, todo, warned, runCommits,
                 missingCommits, picked, prCommits,
                 cherryPickOutput, v1vars>>

\* bumper.UpdatePullRequestWithLabels with internal.GetBody(commits, ...)
UpdatePullRequest ==
  /\ pc = "pr"
  /\ \E ok \in BOOLEAN :
       IF ok THEN prCommits' = [exists |-> TRUE, commits |-> runCommits] /\ pc' = "done"
             ELSE pc' = "failed" /\ UNCHANGED prCommits
  /\ UNCHANGED <<ivars, evars, opts, lastCommits, todo, warned, runCommits,
                 missingCommits, picked, pushed, cherryPickOutput, v1vars>>

Finished == {"done", "fatal", "failed", "panic"}

\* the tool is invoked again, with no new upstream activity in between.
\* Before that the working copy is left as it is, or what it holds is merged
\* into the central branch, or it is reset to the central branch.
NextRun ==
  /\ pc \in Finished
  /\ run < MaxRuns
  /\ run' = run + 1
  /\ \E between \in {"keep", "merge", "reset"} :
       /\ central' = IF between = "merge" THEN Len(history) ELSE central
       /\ history' = IF between = "reset" THEN SubSeq(history, 1, central) ELSE history
  /\ opts' \in OptionSets
  /\ FreshRun
  /\ pc' = "start"
  /\ UNCHANGED <<now, objs, refs, file, v1vars>>

(***************************************************************************)
(* v0: the states a first run starts in.                                   *)
(***************************************************************************)
\* how far downstream has synchronized a repository: not at all, up to a
\* commit of master, or up to a commit master no longer has
SyncPoints == {NoHash, OrphanHash} \cup Hashes

RECURSIVE MarkersOf(_, _)
MarkersOf(repo, hs) ==
  IF hs = <<>> THEN <<>>
  ELSE MarkersOf(repo, SubSeq(hs, 1, Len(hs) - 1))
         \o <<DownCommit(repo, hs[Len(hs)], TRUE, TRUE)>>

\* the downstream history in which every repository has one commit, with its
\* trailers, for every upstream commit up to its synchronization point
InitialHistory(sync) ==
  LET upTo(r) == IF sync[r] = NoHash THEN <<>> ELSE Reverse(Descending(Ancestors(sync[r])))
  IN  MarkersOf("api", upTo("api"))
        \o MarkersOf("operator-lifecycle-manager", upTo("operator-lifecycle-manager"))

InitV0 ==
  /\ pc = "start"
  /\ now = UpstreamLen + 1
  /\ commits = EmptyMap
  /\ indices = EmptyMap
  /\ orderedCommits = <<>>
  /\ reversedCommits = <<>>
  /\ \E sync \in [Repos -> SyncPoints], known \in [Repos -> BOOLEAN] :
       /\ history = InitialHistory(sync)
       /\ objs = [r \in Repos |-> IF known[r] /\ sync[r] # NoHash
                                  THEN Ancestors(sync[r]) ELSE {}]
  /\ central = Len(history)
  /\ \E tag \in Hashes :
       refs = [r \in Repos |-> IF r = "operator-lifecycle-manager" THEN UpstreamLen ELSE tag]
  /\ file = NoFile
  /\ run = 1
  /\ opts \in OptionSets
  /\ lastCommits = EmptyMap
  /\ todo = {}
  /\ warned = {}
  /\ runCommits = <<>>
  /\ missingCommits = <<>>
  /\ picked = <<>>
  /\ pushed = FALSE
  /\ prCommits = NoPR
  /\ cherryPickOutput = {}
  /\ IdleV1
  /\ NoCall
  /\ cancelled = FALSE

\* one invocation of the tool
NextV0Run ==
  \/ ReadCommitsFile
  \/ CalculateRepoRefs
  \/ WalkStaging
  \/ \E repo \in Repos : CollectRepo(repo)
  \/ NoWork
  \/ StartInterleave
  \/ InterleaveStep
  \/ ReverseOrdered
  \/ FilterMissing
  \/ Summarize
  \/ CherryPick
  \/ Push
  \/ UpdatePullRequest

SpecV0Run == InitV0 /\ [][NextV0Run]_vars

\* invocation after invocation
NextV0 == NextV0Run \/ NextRun

SpecV0 == InitV0 /\ [][NextV0]_vars

(***************************************************************************)
(* v1: commit messages and hashes.  A message is the sequence of its       *)
(* words, a hash the sequence of its hex digits, so that the regular       *)
(* expression, git log --grep and strings.HasPrefix do what they do.       *)
(***************************************************************************)
HexDigits == <<"1", "2", "3", "4", "5", "6", "7", "8", "9">>

\* the hash of commit i of upstream main
UpstreamHash(i) == <<"0", HexDigits[i]>>

\* strings.HasPrefix(h, p)
HasPrefix(h, p) == Len(p) <= Len(h) /\ SubSeq(h, 1, Len(p)) = p

\* FindStringSubmatch found nothing
NoMatch == ""

\* the words the optional group (([\w.-]+/[\w-.-]+)?: )? can match
ScopeWords == {":", "org/repo:"}

\* the words the group (\d+:|<carry>:|<drop>:) can match
DirectiveWords == {"<carry>:", "<drop>:", "1234:"}

\* upstreamCommitRegex.FindStringSubmatch(message)[4]
UpstreamCommitRegex(message) ==
  IF Len(message) < 2 \/ message[1] # "UPSTREAM:" THEN NoMatch
  ELSE LET i == IF message[2] = "revert:" THEN 3 ELSE 2
           j == IF i <= Len(message) /\ message[i] \in ScopeWords THEN i + 1 ELSE i
       IN  IF j <= Len(message) /\ message[j] \in DirectiveWords
           THEN message[j] ELSE NoMatch

\* strings.Trim(messageMatches[4], "<>:")
TrimDirective(word) ==
  CASE word = "<carry>:" -> "carry"
    [] word = "<drop>:"  -> "drop"
    [] word = "1234:"    -> "1234"

\* no entry of the drop list is ever applied
DropCommitsIgnored(hash, list) == <<>>

\* any entry that is a prefix of the hash drops the commit, an empty one too
AnyPrefixDrops(hash, list) ==
  IF \E i \in 1..Len(list) : HasPrefix(hash, list[i]) THEN hash ELSE <<>>

\* the loop over opts.listDropCommits: the first entry that is a prefix of
\* the hash, "" when there is none
RECURSIVE DropOf(_, _)
DropOf(hash, list) ==
  IF list = <<>> THEN <<>>
  ELSE IF HasPrefix(hash, Head(list)) THEN Head(list)
  ELSE DropOf(hash, Tail(list))

\* a line of the message matches the pattern of --grep
Grep(message, pattern) == \E i \in 1..Len(message) : message[i] = pattern

\* git log --pretty=format:%H --grep <pattern> <commit> prints a commit
GrepLog(repo, pattern, commit) ==
  \E i \in 1..commit : Grep(upstream[repo][i], pattern)

(***************************************************************************)
(* v1: detection (pkg/v1/cmd.go 276-501).                                  *)
(***************************************************************************)
\* the target is never found on main
NeverUpToDate(repo, commit) == FALSE

\* git merge-base --is-ancestor <commit> main
IsUpToDate(repo, commit) == commit <= main[repo].base

\* git merge-base main FETCH_HEAD
MergeBase(repo, commit) == IF commit <= main[repo].base THEN commit ELSE main[repo].base

\* git log <mergeBase>..main --ancestry-path <mergeBase> --no-merges --reverse:
\* the upstream commits main has merged beyond the merge base, then the
\* commits downstream made on top
DownstreamLog(repo, commit) ==
  LET mergeBase == MergeBase(repo, commit)
  IN  [i \in 1..(main[repo].base - mergeBase) |->
         [Hash |-> UpstreamHash(mergeBase + i), Message |-> upstream[repo][mergeBase + i]]]
        \o main[repo].carries

\* the commit is put in front of the commits found so far
CarriedInFront(downstreamCommits, info) == <<info>> \o downstreamCommits

\* downstreamCommits = append(downstreamCommits, info)
Carried(downstreamCommits, info) == Append(downstreamCommits, info)

\* the loop of detectCarryCommits over the lines of that log
RECURSIVE ClassifyFrom(_, _, _, _)
ClassifyFrom(repo, commit, lines, downstreamCommits) ==
  IF lines = <<>> THEN [err |-> FALSE, additional |-> downstreamCommits]
  ELSE LET info  == [Hash |-> Head(lines).Hash, Message |-> Head(lines).Message, Repo |-> repo]
           found == UpstreamCommitRegex(info.Message)
           drop  == DropOf(info.Hash, v1opts.listDropCommits)
           match == TrimDirective(found)
       IN  IF found = NoMatch
           THEN \* "unexpected commit message"
                [err |-> TRUE, additional |-> <<>>]
           ELSE IF drop # <<>>
           THEN ClassifyFrom(repo, commit, Tail(lines), downstreamCommits)
           ELSE IF match = "drop"
           THEN ClassifyFrom(repo, commit, Tail(lines), downstreamCommits)
           ELSE IF match = "carry"
           THEN ClassifyFrom(repo, commit, Tail(lines), Carried(downstreamCommits, info))
           ELSE IF GrepLog(repo, "(#" \o match \o ")", commit)
           THEN ClassifyFrom(repo, commit, Tail(lines), downstreamCommits)
           ELSE ClassifyFrom(repo, commit, Tail(lines), Carried(downstreamCommits, info))

DetectCarryCommits(repo, commit) ==
  ClassifyFrom(repo, commit, DownstreamLog(repo, commit), <<>>)

\* target[repo] = Config{Target: commit, Additional: additional}
WithConfig(t, repo, commit, additional) ==
  [r \in DOMAIN t \cup {repo} |->
     IF r = repo THEN [Target |-> commit, Additional |-> additional] ELSE t[r]]

\* the repository is left out of target: isUpToDate, which for catalogd is
\* asked only without --force-remerge
ClassifiedAnyway(repo, commit) == FALSE

Skipped(repo, commit) ==
  /\ repo = "catalogd" => ~v1opts.forceRemerge
  /\ IsUpToDate(repo, commit)

\* detectNewOperatorControllerCommits and the git checkout of the target
\* that follows it; FETCH_HEAD is the head of upstream
DetectOperatorController ==
  /\ pc = "v1start"
  /\ ~v1opts.input
  /\ LET commit == Len(upstream["operator-controller"])
         carry  == DetectCarryCommits("operator-controller", commit)
     IN  IF Skipped("operator-controller", commit)
         THEN pc' = "v1catalogd" /\ UNCHANGED <<target, checkout>>
         ELSE IF carry.err
         THEN pc' = "fatal" /\ UNCHANGED <<target, checkout>>
         ELSE /\ target' = WithConfig(target, "operator-controller", commit, carry.additional)
              /\ \E ok \in BOOLEAN :
                   IF ok
                   THEN /\ checkout' = [checkout EXCEPT !["operator-controller"] = "target"]
                        /\ pc' = "v1catalogd"
                   ELSE pc' = "fatal" /\ UNCHANGED checkout
  /\ UNCHANGED <<ivars, evars, rvars, upstream, main, synchronize, version, v1opts,
                 pending, published, applied, replaced, pushedRepos, replayvars, callvars, cancelled>>

\* the iteration of "for _, name := range []string{"catalogd"}"
DetectCatalogd ==
  /\ pc = "v1catalogd"
  /\ LET commit == version
         carry  == DetectCarryCommits("catalogd", commit)
     IN  IF Skipped("catalogd", commit)
         THEN pc' = "v1detected" /\ UNCHANGED target
         ELSE IF carry.err
         THEN pc' = "fatal" /\ UNCHANGED target
         ELSE /\ target' = WithConfig(target, "catalogd", commit, carry.additional)
              /\ pc' = "v1detected"
  /\ UNCHANGED <<ivars, evars, rvars, upstream, main, synchronize, version, v1opts,
                 pending, published, checkout, applied, replaced, pushedRepos, replayvars,
                 callvars, cancelled>>

(***************************************************************************)
(* v1: Run after detection (pkg/v1/cmd.go 123-235).                        *)
(***************************************************************************)
\* the repositories cherryPickAll calls applyConfig for
EveryRepo(t) == V1Repos

ToApply(t) == DOMAIN t

\* json.Marshal of the map of Config: "target" and "additional", and of every
\* commit the hash and the message unless they are empty
MarshalCarry(c) ==
  [k \in (IF c.Hash = <<>> THEN {} ELSE {"hash"})
          \cup (IF c.Message = <<>> THEN {} ELSE {"message"}) |->
     IF k = "hash" THEN c.Hash ELSE c.Message]

MarshalConfigs(t) ==
  [r \in DOMAIN t |->
     [target |-> [hash |-> t[r].Target],
      additional |-> [i \in 1..Len(t[r].Additional) |-> MarshalCarry(t[r].Additional[i])]]]

\* the configurations read back without the commits to carry
TargetsOnly(json) ==
  [r \in DOMAIN json |-> [Target |-> json[r].target.hash, Additional |-> <<>>]]

\* json.Unmarshal into the map of Config
UnmarshalCarry(j) ==
  [Hash |-> IF "hash" \in DOMAIN j THEN j["hash"] ELSE <<>>,
   Message |-> IF "message" \in DOMAIN j THEN j["message"] ELSE <<>>]

UnmarshalConfigs(json) ==
  [r \in DOMAIN json |->
     [Target |-> json[r].target.hash,
      Additional |-> [i \in 1..Len(json[r].additional) |->
                        UnmarshalCarry(json[r].additional[i])]]]

\* CommitFileInput is set: the map of Config is read from the file
ReadCommitsFileV1 ==
  /\ pc = "v1start"
  /\ v1opts.input
  /\ IF ~file.exists
     THEN pc' = "failed" /\ UNCHANGED target
     ELSE pc' = "v1detected" /\ target' = UnmarshalConfigs(file.commits)
  /\ UNCHANGED <<ivars, evars, rvars, upstream, main, synchronize, version, v1opts,
                 pending, published, checkout, applied, replaced, pushedRepos, replayvars,
                 callvars, cancelled>>

\* Run from the commits file to the first applyConfig, with one of the
\* outcomes named: the file is written, RunBingo, then the switch on the
\* mode: nothing more in Summarize, the GitHub client in Publish,
\* SetCommitter in cherryPickAll
UpToApply(outcomes) ==
  /\ \E outcome \in outcomes \cup (IF v1opts.output THEN {"write"} ELSE {}) :
     /\ file' = IF v1opts.output /\ outcome # "write"
                THEN [exists |-> TRUE, commits |-> MarshalConfigs(target)]
                ELSE file
     /\ IF outcome = "write" THEN pc' = "failed" /\ UNCHANGED pending
        ELSE IF outcome = "bingo" THEN pc' = "fatal" /\ UNCHANGED pending
        ELSE IF v1opts.mode = "summarize" THEN pc' = "done" /\ UNCHANGED pending
        ELSE IF outcome = "client" /\ v1opts.mode = "publish"
        THEN pc' = "failed" /\ UNCHANGED pending
        ELSE IF outcome = "committer" THEN pc' = "fatal" /\ UNCHANGED pending
        ELSE /\ pending' = ToApply(target)
             /\ pc' = IF pending' = {} THEN "gomod" ELSE "apply"
  /\ UNCHANGED <<ivars, history, central, objs, refs, run, rvars, upstream, main, synchronize,
                 version, v1opts, target, published, checkout, applied, replaced,
                 pushedRepos, replayvars, callvars, cancelled>>

\* internal.RunBingo and what follows it, as one step
RunBingoV1 ==
  /\ pc = "v1detected"
  /\ UpToApply({"bingo", "client", "committer", "ok"})

\* one more attempt is made
BackoffOneMore == <<0, 10, 30, 60, 120, 240, 480>>

\* backoff: the seconds RunBingo sleeps before each attempt
Backoff == <<0, 10, 30, 60, 120, 240>>

\* one iteration of the loop of RunBingo: time.Sleep, then "bingo get";
\* err is the attempt whose error RunBingo holds, 0 for nil.  After the
\* last attempt RunBingo returns err and Run ends with logger.Fatal.
BingoGet ==
  /\ pc = "v1detected"
  /\ LET done == IF ret.called THEN ret.attempts ELSE 0
         slept == IF ret.called THEN ret.slept ELSE 0
     IN  /\ done < Len(Backoff)
         /\ \E ok \in BOOLEAN :
              /\ ret' = [called |-> TRUE, by |-> "RunBingo", attempts |-> done + 1,
                         err |-> IF ok THEN 0 ELSE done + 1,
                         slept |-> slept + Backoff[done + 1]]
              /\ pc' = IF ok THEN "tools"
                       ELSE IF done + 1 = Len(Backoff) THEN "fatal" ELSE "v1detected"
  /\ UNCHANGED <<ivars, evars, rvars, upstream, main, synchronize, version, v1opts, target,
                 pending, published, checkout, applied, replaced, pushedRepos, replayvars,
                 arg, cancelled>>

\* what follows a RunBingo that returned nil
ModeSwitch ==
  /\ pc = "tools"
  /\ UpToApply({"client", "committer", "ok"})

\* commit t of upstream main, as a head
UpstreamCommit(t) == [base |-> t, carries |-> <<>>]

\* the tree of a head: that of the upstream commit it is based on, with the
\* patches of the commits made on top
TreeOf(head) ==
  [upstream |-> head.base,
   patches  |-> [i \in 1..Len(head.carries) |-> head.carries[i].Hash]]

\* the merge commit takes the tree of the branch that is merged
MergeTheirs(ours, theirs) == [parents |-> <<ours, theirs>>, tree |-> TreeOf(theirs)]

\* git merge --strategy ours <theirs>, with <ours> checked out: the merge
\* commit has both heads as parents and the tree of the head checked out
MergeOurs(ours, theirs) == [parents |-> <<ours, theirs>>, tree |-> TreeOf(ours)]

\* git branch synchronize --force <target>, git checkout synchronize and,
\* when merged, git merge --strategy ours main
AtTarget(repo, merged) ==
  [exists |-> TRUE, target |-> target[repo].Target,
   merge  |-> IF merged THEN MergeOurs(UpstreamCommit(target[repo].Target), main[repo])
              ELSE NoMerge,
   carries |-> <<>>]

\* the commit a generated patch makes
Generated(n, message) == [Hash |-> <<"e", HexDigits[n]>>, Message |-> <<"UPSTREAM:", "<drop>:">> \o message]

\* the bookkeeping commit is the only generated one
OnlyCommitChecker(delayManifestGeneration) ==
  << Generated(4, <<"configure", "the", "commit-checker">>) >>

\* the commits applyConfig makes after the cherry-picks: generatedPatches,
\* commitManifests when the manifests are delayed, writeCommitCheckerFile
GeneratedCommits(delayManifestGeneration) ==
  << Generated(1, <<"go", "mod", "vendor">>),
     Generated(2, <<"remove", "upstream", "GitHub", "configuration">>) >>
    \o (IF delayManifestGeneration
        THEN << Generated(3, <<"Generate", "manifests">>) >> ELSE << >>)
    \o << Generated(4, <<"configure", "the", "commit-checker">>) >>

\* the newest commit to carry is cherry-picked first
NewestFirst(additional) == Reverse(additional)

\* for _, commit := range config.Additional
CarryOrder(additional) == additional

\* the commit that the cherry-pick of commit leaves
CarryCommit(commit) == [Hash |-> commit.Hash, Message |-> commit.Message]

\* what bufio.NewReader(os.Stdin).ReadString can give applyConfig: the line
\* "q", an error, or any other line
Answers == {"q", "read error", "line"}

\* no answer ends the run
NeverQuits(answer) == FALSE

\* ioErr != nil || strings.TrimSpace(text) == "q"
Quits(answer) == answer \in {"q", "read error"}

\* what the loop over the commits to carry can leave, oldest first:
\*   carries    the commits it made on the branch synchronize,
\*   ok         it came to its end without returning an error,
\*   conflicted the commits whose git cherry-pick failed,
\*   prompted   the commits at which it asked the operator,
\*   answers    <<commit, answer>> of what the operator answered,
\*   followups  the commits whose commands after the cherry-pick (go mod,
\*              manifests, git commit --amend) were started,
\*   followed   those commands completed at least once.
\* A cherry-pick lands and the commands after it complete or one of them
\* fails; or the cherry-pick fails and the error is returned, unless the
\* loop pauses: then the operator, who has completed the cherry-pick or has
\* given it up, answers, and the error is returned or the commands after
\* the cherry-pick run.
RECURSIVE PickOutcomes(_, _)
PickOutcomes(additional, pause) ==
  IF additional = <<>>
  THEN {[carries |-> <<>>, ok |-> TRUE, conflicted |-> {}, prompted |-> {}, answers |-> {},
         followups |-> {}, followed |-> FALSE]}
  ELSE LET commit == Head(additional)
           rest   == PickOutcomes(Tail(additional), pause)
           Asked(conflict, answer) ==
             IF conflict /\ pause THEN {<<commit.Hash, answer>>} ELSE {}
           Go(o, landed, conflict, answer) ==
             [carries    |-> (IF landed THEN <<CarryCommit(commit)>> ELSE <<>>) \o o.carries,
              ok         |-> o.ok,
              conflicted |-> o.conflicted \cup (IF conflict THEN {commit.Hash} ELSE {}),
              prompted   |-> o.prompted \cup (IF conflict THEN {commit.Hash} ELSE {}),
              answers    |-> o.answers \cup Asked(conflict, answer),
              followups  |-> o.followups \cup {commit.Hash},
              followed   |-> TRUE]
           Stop(landed, conflict, answer, started) ==
             [carries    |-> IF landed THEN <<CarryCommit(commit)>> ELSE <<>>,
              ok         |-> FALSE,
              conflicted |-> IF conflict THEN {commit.Hash} ELSE {},
              prompted   |-> IF conflict /\ pause THEN {commit.Hash} ELSE {},
              answers    |-> Asked(conflict, answer),
              followups  |-> IF started THEN {commit.Hash} ELSE {},
              followed   |-> FALSE]
       IN  {Go(o, TRUE, FALSE, "line") : o \in rest}
             \cup {Stop(TRUE, FALSE, "line", TRUE)}
             \cup (IF pause
                   THEN UNION {IF Quits(answer)
                               THEN {Stop(landed, TRUE, answer, FALSE) : landed \in BOOLEAN}
                               ELSE {Go(o, landed, TRUE, answer) : o \in rest, landed \in BOOLEAN}
                                      \cup {Stop(landed, TRUE, answer, TRUE) : landed \in BOOLEAN}
                               : answer \in Answers}
                   ELSE {Stop(FALSE, TRUE, "line", FALSE)})

\* where the loop over commits goes after an applyConfig
GoModAtOnce(left) == "gomod"

AfterApply(left) == IF left = {} THEN "gomod" ELSE "apply"

\* applyConfig in cherryPickAll.  A command of it that fails ends the run
\* and leaves what the commands before it did: nothing (git checkout main
\* failed), main checked out (git branch failed), the branch synchronize at
\* the target (git checkout synchronize failed), checked out (git merge
\* failed), or merged with the commits made until then: those of the loop
\* over the commits to carry, then the first done of the generated ones.  writeCommitCheckerFile writes commitchecker.yaml
\* before it runs git add and git commit.
ApplyConfig(repo) ==
  /\ pc = "apply"
  /\ repo \in pending
  /\ LET generated == GeneratedCommits(v1opts.delayManifestGeneration)
         delay     == v1opts.delayManifestGeneration
     IN  \/ /\ pc' = "fatal"
            /\ UNCHANGED <<synchronize, checkout, pending, applied, replayvars>>
         \/ /\ checkout' = [checkout EXCEPT ![repo] = "main"]
            /\ pc' = "fatal"
            /\ UNCHANGED <<synchronize, pending, applied, replayvars>>
         \/ \E checked \in BOOLEAN :
              /\ synchronize' = [synchronize EXCEPT ![repo] = AtTarget(repo, FALSE)]
              /\ checkout' = [checkout EXCEPT ![repo] =
                                IF checked THEN "synchronize" ELSE "main"]
              /\ pc' = "fatal"
              /\ UNCHANGED <<pending, applied, replayvars>>
         \/ \E o \in PickOutcomes(CarryOrder(target[repo].Additional),
                                  v1opts.pauseOnCherryPickError) :
            \E done \in 0..Len(generated), written \in BOOLEAN :
              /\ ~o.ok => done = 0
              /\ \/ written = (done = Len(generated))
                 \/ written /\ o.ok /\ done = Len(generated) - 1
              /\ synchronize' = [synchronize EXCEPT ![repo] =
                   [AtTarget(repo, TRUE) EXCEPT
                      !.carries = o.carries \o SubSeq(generated, 1, done)]]
              /\ checkout' = [checkout EXCEPT ![repo] = "synchronize"]
              /\ conflicted' = conflicted \cup {<<repo, h>> : h \in o.conflicted}
              /\ prompted' = prompted \cup {<<repo, h>> : h \in o.prompted}
              /\ answers' = answers \cup {<<repo, a[1], a[2]>> : a \in o.answers}
              /\ followups' = followups \cup {<<repo, h>> : h \in o.followups}
              /\ checkerWritten' = IF written THEN checkerWritten \cup {repo} ELSE checkerWritten
              /\ manifests' = [manifests EXCEPT ![repo] =
                   IF delay /\ done >= 3 THEN "generated"
                   ELSE IF o.followed THEN (IF delay THEN "removed" ELSE "generated")
                   ELSE "untouched"]
              /\ IF o.ok /\ done = Len(generated)
                 THEN /\ applied' = applied \cup {repo}
                      /\ pending' = pending \ {repo}
                      /\ pc' = AfterApply(pending')
                 ELSE pc' = "fatal" /\ UNCHANGED <<pending, applied>>
  /\ UNCHANGED <<ivars, evars, rvars, upstream, main, version, v1opts, target, published,
                 replaced, pushedRepos, callvars, cancelled>>

\* the loop that pushes and updates the pull requests follows in every mode
PublishAlways(mode) == "publish"

\* cherryPickAll is followed by the loop over commits only in case flags.Publish
AfterRewrite(mode) == IF mode = "publish" THEN "publish" ELSE "done"

\* the dependencies whose downstream head determineDownstreamHead resolves
EveryDependency(t) == {"catalogd"}

OtherCommits(t) == {"catalogd"} \ DOMAIN t

\* the commit of rewriteGoMod
RewriteCommit == Generated(5, <<"rewrite", "go", "mod">>)

\* every branch gets the commit
CommittedEverywhere(branches, repo, commit) ==
  [r \in DOMAIN branches |-> [branches[r] EXCEPT !.carries = Append(@, commit)]]

\* the branch checked out in the directory of repo gets the commit
Committed(branches, repo, commit) ==
  [branches EXCEPT ![repo].carries = Append(@, commit)]

\* determineDownstreamHead and rewriteGoMod at the end of cherryPickAll:
\* a command fails (before or after the replace directives are written),
\* git commit finds nothing to commit, or it commits on the branch that is
\* checked out in the directory of operator-controller
RewriteGoMod ==
  /\ pc = "gomod"
  /\ LET otherCommits == OtherCommits(target)
         next == AfterRewrite(v1opts.mode)
         on   == checkout["operator-controller"]
     IN  \E outcome \in {"head", "tidy", "nothing", "commit"} :
           /\ replaced' = IF outcome = "head" THEN replaced ELSE replaced \cup otherCommits
           /\ IF outcome \in {"head", "tidy"}
              THEN pc' = "fatal" /\ UNCHANGED <<main, synchronize, pending>>
              ELSE /\ pc' = IF next = "publish" /\ DOMAIN target = {} THEN "done" ELSE next
                   /\ pending' = IF next = "publish" THEN DOMAIN target ELSE pending
                   /\ IF outcome = "nothing" \/ on = "target"
                      THEN UNCHANGED <<main, synchronize>>
                      ELSE IF on = "main"
                      THEN main' = Committed(main, "operator-controller", RewriteCommit)
                           /\ UNCHANGED synchronize
                      ELSE synchronize' = Committed(synchronize, "operator-controller", RewriteCommit)
                           /\ UNCHANGED main
  /\ UNCHANGED <<ivars, evars, rvars, upstream, version, v1opts, target, published,
                 checkout, applied, pushedRepos, replayvars, callvars, cancelled>>

\* EnsureFork and MinimalGitPush of one repository of the loop over commits
PushRepo(repo) ==
  /\ pc = "publish"
  /\ repo \in pending
  /\ \E outcome \in {"fork", "push", "ok"} :
       IF outcome = "ok"
       THEN pushedRepos' = pushedRepos \cup {repo} /\ pc' = "v1pr"
       ELSE pc' = "failed" /\ UNCHANGED pushedRepos
  /\ UNCHANGED <<ivars, evars, rvars, upstream, main, synchronize, version, v1opts, target,
                 pending, published, checkout, applied, replaced, replayvars, callvars, cancelled>>

\* UpdatePullRequestWithLabels of the repository that was just pushed
UpdatePullRequestV1(repo) ==
  /\ pc = "v1pr"
  /\ repo \in pending \cap pushedRepos
  /\ \E ok \in BOOLEAN :
       IF ~ok THEN pc' = "failed" /\ UNCHANGED <<pending, published>>
       ELSE /\ published' = published \cup {repo}
            /\ pending' = pending \ {repo}
            /\ pc' = IF pending' = {} THEN "done" ELSE "publish"
  /\ UNCHANGED <<ivars, evars, rvars, upstream, main, synchronize, version, v1opts, target,
                 checkout, applied, replaced, pushedRepos, replayvars, callvars, cancelled>>

\* main of repo once the branch synchronize has been merged into it
Merged(repo) ==
  IF synchronize[repo].exists
  THEN [base |-> synchronize[repo].target, carries |-> synchronize[repo].carries]
  ELSE main[repo]

\* the modes and the force-remerge option of a run
V1Flags == [mode : Modes, forceRemerge : BOOLEAN]

\* the tool is invoked again, with no new upstream activity in between.
\* Before that the branches are left as they are, or every branch
\* synchronize is merged into main.
NextRunV1 ==
  /\ pc \in Finished
  /\ run < MaxRuns
  /\ run' = run + 1
  /\ \E merge \in BOOLEAN :
       main' = IF merge THEN [r \in V1Repos |-> Merged(r)] ELSE main
  /\ \E f \in V1Flags :
       v1opts' = [mode |-> f.mode, forceRemerge |-> f.forceRemerge,
                  listDropCommits |-> v1opts.listDropCommits,
                  delayManifestGeneration |-> v1opts.delayManifestGeneration,
                  pauseOnCherryPickError |-> v1opts.pauseOnCherryPickError,
                  input |-> v1opts.input, output |-> v1opts.output]
  /\ target' = EmptyMap
  /\ pending' = {}
  /\ published' = {}
  /\ applied' = {}
  /\ replaced' = {}
  /\ pushedRepos' = {}
  /\ conflicted' = {}
  /\ prompted' = {}
  /\ answers' = {}
  /\ followups' = {}
  /\ checkerWritten' = {}
  /\ manifests' = [r \in V1Repos |-> "untouched"]
  /\ pc' = "v1start"
  /\ UNCHANGED <<ivars, history, central, objs, refs, file, rvars, upstream, synchronize,
                 version, checkout, callvars, cancelled>>

(***************************************************************************)
(* v1: the states a first run starts in.                                   *)
(***************************************************************************)
\* the v0 variables where the v1 tool runs
IdleV0 ==
  /\ now = 0
  /\ commits = EmptyMap
  /\ indices = EmptyMap
  /\ orderedCommits = <<>>
  /\ reversedCommits = <<>>
  /\ history = <<>>
  /\ central = 0
  /\ objs = [r \in Repos |-> {}]
  /\ refs = [r \in Repos |-> UpstreamLen]
  /\ file = NoFile
  /\ opts = [mode |-> "summarize", input |-> FALSE, output |-> FALSE, history |-> 1]
  /\ lastCommits = EmptyMap
  /\ todo = {}
  /\ warned = {}
  /\ runCommits = <<>>
  /\ missingCommits = <<>>
  /\ picked = <<>>
  /\ pushed = FALSE
  /\ prCommits = NoPR
  /\ cherryPickOutput = {}

\* messages of upstream commits: without a pull request, squashed from pull
\* request 1234, and the revert of that commit by pull request 1300
PlainMessage == <<"did", "Y">>
SquashedMessage == <<"did", "X", "(#1234)">>
MentionMessage == <<"Revert", "did", "X", "(#1234)", "(#1300)">>

\* upstream main in which commit at has message m and every other commit
\* the plain message
UpstreamWith(at, m) == [i \in 1..UpstreamLen |-> IF i = at THEN m ELSE PlainMessage]

UpstreamChains ==
  {UpstreamWith(0, PlainMessage)}
    \cup {UpstreamWith(at, SquashedMessage) : at \in 1..UpstreamLen}
    \cup {UpstreamWith(at, MentionMessage) : at \in 1..UpstreamLen}

\* messages of commits made downstream
DownstreamMessages ==
  { <<"fix", "bug">>,
    <<"UPSTREAM:", "<carry>:", "fix", "bug">>,
    <<"UPSTREAM:", "<drop>:", "go", "mod", "vendor">>,
    <<"UPSTREAM:", "1234:", "did", "X">> }

\* the hash of the commit at position i on top of the merge
CarryHash(i) == <<"a", HexDigits[i]>>

CarryLists ==
  UNION {[1..n -> DownstreamMessages] : n \in 0..MaxCarries}

CarriesOf(messages) ==
  [i \in 1..Len(messages) |-> [Hash |-> CarryHash(i), Message |-> messages[i]]]

\* entries of --drop-commits: empty, a prefix of every hash made downstream,
\* and the hash of the first commit on top of the merge
DropEntries == {<<>>, <<"a">>, CarryHash(1)}

\* strings.Join: the strings of parts with sep between them
RECURSIVE Join(_, _)
Join(parts, sep) ==
  IF Len(parts) = 1 THEN parts[1]
  ELSE parts[1] \o <<sep>> \o Join(Tail(parts), sep)

\* strings.Split
RECURSIVE Split(_, _)
Split(s, sep) ==
  IF \A i \in 1..Len(s) : s[i] # sep THEN <<s>>
  ELSE LET i == CHOOSE k \in 1..Len(s) : s[k] = sep /\ \A j \in 1..(k - 1) : s[j] # sep
       IN  <<SubSeq(s, 1, i - 1)>> \o Split(SubSeq(s, i + 1, Len(s)), sep)

\* the values of --drop-commits: nothing, or entries with commas between them
DropStrings ==
  {<<>>} \cup {Join(entries, ",") :
                 entries \in UNION {[1..n -> DropEntries] : n \in 1..MaxDrops}}

\* Options.Validate: listDropCommits is set when the option is not empty
Validate(dropCommits) ==
  IF dropCommits = <<>> THEN <<>> ELSE Split(dropCommits, ",")

DropLists == {Validate(dropCommits) : dropCommits \in DropStrings}

\* detection alone: one repository has any upstream messages, commits on
\* top and merge base, the other one is at the head of its upstream with
\* nothing on top
InitV1Detect ==
  /\ pc = "v1start"
  /\ run = 1
  /\ IdleV0
  /\ \E repo \in V1Repos, chain \in UpstreamChains, base \in 1..UpstreamLen,
        messages \in CarryLists :
       /\ upstream = [r \in V1Repos |-> IF r = repo THEN chain
                                        ELSE UpstreamWith(0, PlainMessage)]
       /\ main = [r \in V1Repos |->
                    IF r = repo THEN [base |-> base, carries |-> CarriesOf(messages)]
                    ELSE [base |-> UpstreamLen, carries |-> <<>>]]
       /\ version \in IF repo = "catalogd" THEN 1..UpstreamLen ELSE {UpstreamLen}
  /\ synchronize = [r \in V1Repos |-> NoBranch]
  /\ \E force \in BOOLEAN, drops \in DropLists :
       v1opts = [mode |-> "summarize", forceRemerge |-> force, listDropCommits |-> drops,
                 delayManifestGeneration |-> FALSE, pauseOnCherryPickError |-> FALSE,
                 input |-> FALSE, output |-> FALSE]
  /\ target = EmptyMap
  /\ pending = {}
  /\ published = {}
  /\ checkout = [r \in V1Repos |-> "main"]
  /\ applied = {}
  /\ replaced = {}
  /\ pushedRepos = {}
  /\ NothingReplayed
  /\ NoCall
  /\ cancelled = FALSE

NextV1Detect == DetectOperatorController \/ DetectCatalogd

SpecV1Detect == InitV1Detect /\ [][NextV1Detect]_vars

\* runs: upstream main ends with the commit squashed from pull request 1234,
\* every repository has at most one commit on top of its merge
RunCarryLists ==
  { <<>>,
    << <<"UPSTREAM:", "<carry>:", "fix", "bug">> >>,
    << <<"UPSTREAM:", "1234:", "did", "X">> >> }

\* two commits to carry on top of the merge
LongerCarryLists ==
  { << <<"UPSTREAM:", "<carry>:", "fix", "bug">>, <<"UPSTREAM:", "<carry>:", "add", "Dockerfile">> >> }

\* a commit on top of the merge whose message detection does not accept
UnexpectedCarryLists == { << <<"fix", "bug">> >> }

InitV1With(lists, delays, pauses, outputs) ==
  /\ pc = "v1start"
  /\ run = 1
  /\ IdleV0
  /\ upstream = [r \in V1Repos |-> UpstreamWith(UpstreamLen, SquashedMessage)]
  /\ \E base \in [V1Repos -> 1..UpstreamLen], messages \in [V1Repos -> lists] :
       main = [r \in V1Repos |-> [base |-> base[r], carries |-> CarriesOf(messages[r])]]
  /\ version \in 1..UpstreamLen
  /\ synchronize = [r \in V1Repos |-> NoBranch]
  /\ \E f \in V1Flags, delay \in delays, pause \in pauses, output \in outputs :
       v1opts = [mode |-> f.mode, forceRemerge |-> f.forceRemerge, listDropCommits |-> <<>>,
                 delayManifestGeneration |-> delay, pauseOnCherryPickError |-> pause,
                 input |-> FALSE, output |-> output]
  /\ target = EmptyMap
  /\ pending = {}
  /\ published = {}
  /\ checkout = [r \in V1Repos |-> "main"]
  /\ applied = {}
  /\ replaced = {}
  /\ pushedRepos = {}
  /\ NothingReplayed
  /\ NoCall
  /\ cancelled = FALSE

\* repeated runs, with the default of --delay-manifest-generation
InitV1 == InitV1With(RunCarryLists, {FALSE}, {FALSE}, {FALSE})

\* one invocation of the v1 tool
NextV1Run ==
  \/ DetectOperatorController
  \/ DetectCatalogd
  \/ RunBingoV1
  \/ \E repo \in V1Repos : ApplyConfig(repo)
  \/ RewriteGoMod
  \/ \E repo \in V1Repos : PushRepo(repo)
  \/ \E repo \in V1Repos : UpdatePullRequestV1(repo)

NextV1 == NextV1Run \/ NextRunV1

SpecV1 == InitV1 /\ [][NextV1]_vars

\* one invocation of the v1 tool, the attempts of RunBingo one by one
NextBingo ==
  \/ DetectOperatorController
  \/ DetectCatalogd
  \/ BingoGet
  \/ ModeSwitch
  \/ \E repo \in V1Repos : ApplyConfig(repo)
  \/ RewriteGoMod
  \/ \E repo \in V1Repos : PushRepo(repo)
  \/ \E repo \in V1Repos : UpdatePullRequestV1(repo)

SpecBingo == InitV1 /\ [][NextBingo]_vars

\* one invocation of the v1 tool, from every such state
InitV1Run ==
  InitV1With(RunCarryLists \cup LongerCarryLists \cup UnexpectedCarryLists, BOOLEAN, BOOLEAN,
             {FALSE})

SpecV1Run == InitV1Run /\ [][NextV1Run]_vars

\* one invocation of either tool
InitRun == InitV0 \/ InitV1Run

NextRun1 == NextV0Run \/ NextV1Run

SpecRun == InitRun /\ [][NextRun1]_vars

(***************************************************************************)
(* Two invocations: the first detects and writes the commits file, the     *)
(* second reads it and replays (Run, pkg/v0/cmd.go 89-136 and              *)
(* pkg/v1/cmd.go 96-121).                                                  *)
(***************************************************************************)
ReplayModes == {"synchronize", "publish"}

\* --mode summarize --commits-output <file>
InitResume ==
  \/ InitV0 /\ opts.mode = "summarize" /\ opts.output /\ ~opts.input
  \/ InitV1With(RunCarryLists \cup LongerCarryLists, {FALSE}, {FALSE}, {TRUE})
       /\ v1opts.mode = "summarize"

\* v0 is invoked again in the same working copy with --commits-input <file>
ResumeV0 ==
  /\ pc = "done"
  /\ run = 1
  /\ upstream["operator-controller"] = <<>>
  /\ file.exists
  /\ run' = 2
  /\ \E mode \in ReplayModes :
       opts' = [mode |-> mode, input |-> TRUE, output |-> FALSE, history |-> opts.history]
  /\ FreshRun
  /\ pc' = "start"
  /\ UNCHANGED <<now, history, central, objs, refs, file, v1vars>>

\* v1 is invoked again in the same working copies with --commits-input <file>
ResumeV1 ==
  /\ pc = "done"
  /\ run = 1
  /\ upstream["operator-controller"] # <<>>
  /\ file.exists
  /\ run' = 2
  /\ \E mode \in ReplayModes :
       v1opts' = [v1opts EXCEPT !.mode = mode, !.input = TRUE, !.output = FALSE]
  /\ target' = EmptyMap
  /\ pc' = "v1start"
  /\ UNCHANGED <<ivars, history, central, objs, refs, file, rvars, upstream, main,
                 synchronize, version, pending, published, checkout, applied, replaced,
                 pushedRepos, replayvars, callvars, cancelled>>

NextResume == NextV0Run \/ NextV1Run \/ ReadCommitsFileV1 \/ ResumeV0 \/ ResumeV1

SpecResume == InitResume /\ [][NextResume]_vars

(***************************************************************************)
(* One invocation that os.Interrupt may reach: main hands Run the context  *)
(* of signal.NotifyContext (cmd/v0/main.go 13-32), which the signal only   *)
(* cancels.  exec.CommandContext kills the command in flight and lets no   *)
(* later command start; calls that do not take the context go on.          *)
(***************************************************************************)
\* the signal arrives between two steps of the run, or during a call that is
\* not bound to the context
Interrupt ==
  /\ ~cancelled
  /\ pc \notin Finished \cup {"prompt"}
  /\ cancelled' = TRUE
  /\ UNCHANGED <<pc, ivars, evars, rvars, upstream, main, synchronize, version, v1opts,
                 target, pending, published, checkout, applied, replaced, pushedRepos,
                 replayvars, callvars>>

\* the signal arrives during the git cherry-pick of the i-th commit to carry
\* in applyConfig: the command is killed, RunCommand returns its error, and
\* with pauseOnCherryPickError applyConfig reads the answer of the operator
InterruptCherryPick(repo) ==
  /\ pc = "apply"
  /\ ~cancelled
  /\ repo \in pending
  /\ cancelled' = TRUE
  /\ \E i \in 1..Len(target[repo].Additional) :
       LET commit == target[repo].Additional[i]
       IN  /\ synchronize' = [synchronize EXCEPT ![repo] =
                 [AtTarget(repo, TRUE) EXCEPT
                    !.carries = [k \in 1..(i - 1) |-> CarryCommit(target[repo].Additional[k])]]]
           /\ conflicted' = conflicted \cup {<<repo, commit.Hash>>}
           /\ prompted' = IF v1opts.pauseOnCherryPickError
                          THEN prompted \cup {<<repo, commit.Hash>>} ELSE prompted
           /\ followups' = followups
                 \cup {<<repo, target[repo].Additional[k].Hash>> : k \in 1..(i - 1)}
           /\ manifests' = [manifests EXCEPT ![repo] =
                 IF i = 1 THEN "untouched"
                 ELSE IF v1opts.delayManifestGeneration THEN "removed" ELSE "generated"]
  /\ checkout' = [checkout EXCEPT ![repo] = "synchronize"]
  /\ pc' = IF v1opts.pauseOnCherryPickError THEN "prompt" ELSE "fatal"
  /\ UNCHANGED <<ivars, evars, rvars, upstream, main, version, v1opts, target, pending,
                 published, applied, replaced, pushedRepos, answers, checkerWritten,
                 callvars>>

\* the operator answers the prompt: with 'q' applyConfig returns the error,
\* with ENTER it goes on to "go mod tidy", which does not start
OperatorAnswers ==
  /\ pc = "prompt"
  /\ \E p \in prompted, answer \in Answers :
       /\ \A a \in Answers : <<p[1], p[2], a>> \notin answers
       /\ answers' = answers \cup {<<p[1], p[2], answer>>}
       /\ followups' = IF Quits(answer) THEN followups ELSE followups \cup {p}
  /\ pc' = "fatal"
  /\ UNCHANGED <<ivars, evars, rvars, upstream, main, synchronize, version, v1opts, target,
                 pending, published, checkout, applied, replaced, pushedRepos, conflicted,
                 prompted, checkerWritten, manifests, callvars, cancelled>>

\* the next step of the run starts a command with exec.CommandContext
StartsCommand ==
  \/ pc \in {"walk", "collect", "pick", "v1start", "v1catalogd", "v1detected", "apply",
              "gomod", "publish"}
  \/ pc = "start" /\ ~opts.input
  \/ pc = "detected" /\ reversedCommits # <<>>
  \/ pc = "loaded" /\ runCommits # <<>>

\* the context is cancelled and the command does not start: Run ends with
\* logger.Fatal, in the loop over commits of v1 with the error of
\* MinimalGitPush
CommandFails ==
  /\ cancelled
  /\ StartsCommand
  /\ pc' = IF pc = "publish" THEN "failed" ELSE "fatal"
  /\ UNCHANGED <<ivars, evars, rvars, v1vars>>

\* the steps of the run that start no command bound to the context
StillRuns ==
  /\ cancelled
  /\ ~StartsCommand
  /\ \/ ReadCommitsFile
     \/ NoWork
     \/ StartInterleave
     \/ InterleaveStep
     \/ ReverseOrdered
     \/ FilterMissing
     \/ Summarize
     \/ Push
     \/ UpdatePullRequest
     \/ \E repo \in V1Repos : UpdatePullRequestV1(repo)

\* the steps of a run whose context is not cancelled
Uncancelled == ~cancelled /\ (NextV0Run \/ NextV1Run)

\* the steps the process takes by itself
ProgramStep == Uncancelled \/ CommandFails \/ StillRuns

InitCancel ==
  InitV0 \/ InitV1With(RunCarryLists \cup LongerCarryLists, {FALSE}, BOOLEAN, {FALSE})

NextCancel ==
  \/ ProgramStep
  \/ Interrupt
  \/ \E repo \in V1Repos : InterruptCherryPick(repo)
  \/ OperatorAnswers

SpecCancel == InitCancel /\ [][NextCancel]_vars

\* the process is scheduled as long as it has a step to take; nothing makes
\* the signal arrive or the operator answer
FairCancel == SpecCancel /\ WF_vars(ProgramStep)

(***************************************************************************)
(* The interleave on its own: every map of collected commits.              *)
(***************************************************************************)
\* what git log <last>...FETCH_HEAD lists for a repository whose n new
\* commits have the dates d[1..n] (oldest first): newest first
LogOutput(repo, d) == [i \in 1..Len(d) |-> MkCommit(repo, Len(d) - i + 1, d[Len(d) - i + 1])]

\* the dates of the commits of a collected map
DatesOf(cs) == UNION {{cs[r][i].Date : i \in DOMAIN cs[r]} : r \in DOMAIN cs}

\* the loop only compares dates (Date.Before), so the dates of a map are
\* taken up to their order: they are 1..m for some m
DenseDates(cs) == \E m \in 0..MaxDate : DatesOf(cs) = 1..m

\* how many commits detection can collect for each repository
CollectedLens ==
  {n \in [Repos -> 0..MaxRepoCommits] :
     n["api"] + n["operator-lifecycle-manager"] <= MaxCommits}

\* the map detection collects when the new commits of api have the dates a
\* and those of operator-lifecycle-manager the dates o (oldest first): a
\* repository has a key only if it has commits
CollectedMap(a, o) ==
  [r \in {q \in Repos : (IF q = "api" THEN a ELSE o) # <<>>} |->
     LogOutput(r, IF r = "api" THEN a ELSE o)]

\* the wall clock of the run: later than every commit date, or (a commit
\* dated in the future) not later than the newest one
NowValues(cs) == {Cardinality(DatesOf(cs)), Cardinality(DatesOf(cs)) + 1}

InitInterleave ==
  /\ pc = "collected"
  /\ \E n \in CollectedLens :
       \E a \in [1..n["api"] -> Dates], o \in [1..n["operator-lifecycle-manager"] -> Dates] :
          commits = CollectedMap(a, o)
  /\ DenseDates(commits)
  /\ now \in NowValues(commits)
  /\ indices = EmptyMap
  /\ orderedCommits = <<>>
  /\ reversedCommits = <<>>
  /\ history = <<>>
  /\ central = 0
  /\ objs = [r \in Repos |-> {}]
  /\ refs = [r \in Repos |-> UpstreamLen]
  /\ file = NoFile
  /\ run = 1
  /\ opts = [mode |-> "summarize", input |-> FALSE, output |-> FALSE, history |-> 1]
  /\ lastCommits = EmptyMap
  /\ todo = {}
  /\ warned = {}
  /\ runCommits = <<>>
  /\ missingCommits = <<>>
  /\ picked = <<>>
  /\ pushed = FALSE
  /\ prCommits = NoPR
  /\ cherryPickOutput = {}
  /\ IdleV1
  /\ NoCall
  /\ cancelled = FALSE

NextInterleave ==
  \/ NoWork
  \/ StartInterleave
  \/ InterleaveStep
  \/ ReverseOrdered

SpecInterleave == InitInterleave /\ [][NextInterleave]_vars

(***************************************************************************)
(* Module versions: getTagOrCommit (pkg/v0/cmd.go 198-232) and the version *)
(* of catalogd in detectNewCommits (pkg/v1/cmd.go 303-341).                *)
(*                                                                         *)
(* A string is a sequence of tokens: "-" and "." stand for themselves,     *)
(* every other token for a maximal run of letters and digits.              *)
(***************************************************************************)
\* the number of hyphen-separated pieces of a pre-release
MaxSegments == 3

FourteenDigits == {"20240102030405"}
Digits == {"0"} \cup FourteenDigits
\* tokens made of the characters 0-9 and a-f only
HexTokens == Digits \cup {"0123abcd4567"}

\* the pieces, free of hyphens, a pre-release is made of
Segments ==
  { <<"20240102030405">>, <<"0123abcd4567">>, <<"0", ".", "20240102030405">>, <<"rc">>,
    <<"rc", ".", "0", ".", "20240102030405">> }

\* what "go list -json -m" may report as Version
Versions ==
  {<<core>> : core \in {"v1.2.3", "master"}}
    \cup {<<core, "-">> \o Join(segs, "-") :
            core \in {"v1.2.3", "master"},
            segs \in UNION {[1..n -> Segments] : n \in 1..MaxSegments}}

\* semver.NewVersion: major.minor.patch, then after a hyphen the pre-release,
\* identifiers of letters, digits and hyphens separated by single dots
NewVersion(v) ==
  LET pre == SubSeq(v, 3, Len(v))
      ok  == /\ v # <<>>
             /\ v[1] = "v1.2.3"
             /\ Len(v) > 1 =>
                  /\ v[2] = "-"
                  /\ pre # <<>>
                  /\ pre[1] # "." /\ pre[Len(pre)] # "."
                  /\ \A i \in 1..(Len(pre) - 1) : ~(pre[i] = "." /\ pre[i + 1] = ".")
  IN  [err |-> ~ok, pre |-> IF ok THEN pre ELSE <<>>]

\* a ref taken from the first piece of the pre-release
FirstOfPres(pres) == pres[1]

\* "Return the second component, which is a commit SHA"
CommitOfPres(pres) == pres[2]

\* getTagOrCommit once "go list" has reported the version
TagOrCommit(v) ==
  LET sv == NewVersion(v)
  IN  IF sv.err THEN [ref |-> <<>>, err |-> TRUE]
      ELSE IF sv.pre = <<>> THEN [ref |-> v, err |-> FALSE]
      ELSE LET pres == Split(sv.pre, "-")
           IN  IF Len(pres) # 2 THEN [ref |-> <<>>, err |-> TRUE]
               ELSE [ref |-> CommitOfPres(pres), err |-> FALSE]

GetTagOrCommit ==
  /\ pc = "version"
  /\ \E listed \in BOOLEAN :
       LET r == IF listed THEN TagOrCommit(arg) ELSE [ref |-> <<>>, err |-> TRUE]
       IN  ret' = [called |-> TRUE, by |-> "getTagOrCommit", listed |-> listed,
                   ref |-> r.ref, err |-> r.err]
  /\ pc' = "resolved"
  /\ UNCHANGED <<ivars, evars, rvars, upstream, main, synchronize, version, v1opts, target,
                 pending, published, checkout, applied, replaced, pushedRepos, replayvars,
                 arg, cancelled>>

\* what a failing "git rev-parse <version>^{}" prints: the argument, and the
\* message of git, which names the argument
RevParseFailure(v) == v \o <<"^{}", "fatal: ambiguous argument">>

\* syntheticVersionRegex matches the text from token i on:
\* [^-]+ - [0-9]+ \. [0-9]{14} - ([0-9a-f]+)
MatchesAt(text, i) ==
  /\ i + 6 <= Len(text)
  /\ text[i] # "-"
  /\ text[i + 1] = "-"
  /\ text[i + 2] \in Digits
  /\ text[i + 3] = "."
  /\ text[i + 4] \in FourteenDigits
  /\ text[i + 5] = "-"
  /\ text[i + 6] \in HexTokens

\* syntheticVersionRegex.FindStringSubmatch: the leftmost match, and in it
\* the submatch of the group; <<>> when nothing matches
FindStringSubmatch(text) ==
  IF \E i \in 1..Len(text) : MatchesAt(text, i)
  THEN LET i == CHOOSE k \in 1..Len(text) :
                  MatchesAt(text, k) /\ \A j \in 1..(k - 1) : ~MatchesAt(text, j)
       IN  <<SubSeq(text, i, i + 6), <<text[i + 6]>>>>
  ELSE <<>>

\* the commit of a version that is no ref of the repository
CommitFromVersion(output) ==
  LET commitMatches == FindStringSubmatch(output)
  IN  IF Len(commitMatches) > 0 /\ Len(commitMatches[1]) > 1
      THEN commitMatches[2] ELSE <<>>

\* detectNewCommits: the commit of the version of catalogd (cmd.go 324-341)
ResolveVersion ==
  /\ pc = "version"
  /\ \E tagged \in BOOLEAN :
       LET commitFromVersion == CommitFromVersion(RevParseFailure(arg))
       IN  ret' = [called |-> TRUE, by |-> "detectNewCommits", tagged |-> tagged,
                   ref |-> IF tagged THEN <<"commit of the tag">> ELSE commitFromVersion,
                   err |-> ~tagged /\ commitFromVersion = <<>>]
  /\ pc' = "resolved"
  /\ UNCHANGED <<ivars, evars, rvars, upstream, main, synchronize, version, v1opts, target,
                 pending, published, checkout, applied, replaced, pushedRepos, replayvars,
                 arg, cancelled>>

InitVersion ==
  /\ pc = "version"
  /\ run = 1
  /\ IdleV0
  /\ IdleV1
  /\ arg \in Versions
  /\ ret = NotCalled
  /\ cancelled = FALSE

NextVersion == GetTagOrCommit \/ ResolveVersion

\* one call of getTagOrCommit or one resolution of the version of catalogd
SpecVersion == InitVersion /\ [][NextVersion]_vars

(***************************************************************************)
(* ParseFormat (pkg/internal/formatting.go 44-61): one line of             *)
(* "git log --pretty=format:%H<NBSP>%cI<NBSP>%an<NBSP>%s".                  *)
(***************************************************************************)
\* the number of fields of a line
MaxFields == 5

\* the token that stands for the character U+00A0 of PrettyFormat
Nbsp == "NBSP"

\* the timestamps time.Parse(time.RFC3339, _) accepts, and the time each one
\* denotes: an instant and the offset of its zone
Rfc3339 ==
  [ t \in {"2024-01-02T03:04:05Z", "2024-01-02T05:04:05+02:00"} |->
      IF t = "2024-01-02T03:04:05Z" THEN [instant |-> 1, offset |-> 0]
      ELSE [instant |-> 1, offset |-> 2] ]

\* time.Time{}
ZeroTime == [instant |-> 0, offset |-> 0]

\* a parser that takes a timestamp without zone for one in UTC
LenientTime(field) ==
  IF Len(field) = 1 /\ field[1] \in DOMAIN Rfc3339
  THEN [err |-> FALSE, time |-> Rfc3339[field[1]]]
  ELSE IF field = <<"2024-01-02T03:04:05">>
  THEN [err |-> FALSE, time |-> [instant |-> 1, offset |-> 0]]
  ELSE [err |-> TRUE, time |-> ZeroTime]

\* time.Parse(time.RFC3339, parts[1])
ParseTime(field) ==
  IF Len(field) = 1 /\ field[1] \in DOMAIN Rfc3339
  THEN [err |-> FALSE, time |-> Rfc3339[field[1]]]
  ELSE [err |-> TRUE, time |-> ZeroTime]

\* Commit{}
EmptyCommit == [Hash |-> <<>>, Date |-> ZeroTime, Author |-> <<>>, Message |-> <<>>]

ParseFormat(format) ==
  LET parts == Split(format, Nbsp)
  IN  IF Len(parts) # 4 THEN [commit |-> EmptyCommit, err |-> TRUE]
      ELSE LET committedTime == ParseTime(parts[2])
           IN  IF committedTime.err THEN [commit |-> EmptyCommit, err |-> TRUE]
               ELSE [commit |-> [Hash |-> parts[1], Date |-> committedTime.time,
                                 Author |-> parts[3], Message |-> parts[4]],
                     err |-> FALSE]

\* what git may print between two separators
Fields ==
  { <<>>, <<"0123abcd4567">>, <<"2024-01-02T03:04:05Z">>, <<"2024-01-02T05:04:05+02:00">>,
    <<"2024-01-02T03:04:05">>, <<"fix", "bug">> }

\* the lines ParseFormat may be called with
Formats ==
  {Join(fields, Nbsp) : fields \in UNION {[1..n -> Fields] : n \in 1..MaxFields}}

CallParseFormat ==
  /\ pc = "format"
  /\ LET r == ParseFormat(arg)
     IN  ret' = [called |-> TRUE, by |-> "ParseFormat", commit |-> r.commit, err |-> r.err]
  /\ pc' = "parsed"
  /\ UNCHANGED <<ivars, evars, rvars, upstream, main, synchronize, version, v1opts, target,
                 pending, published, checkout, applied, replaced, pushedRepos, replayvars,
                 arg, cancelled>>

InitParse ==
  /\ pc = "format"
  /\ run = 1
  /\ IdleV0
  /\ IdleV1
  /\ arg \in Formats
  /\ ret = NotCalled
  /\ cancelled = FALSE

NextParse == CallParseFormat

\* one call of ParseFormat
SpecParse == InitParse /\ [][NextParse]_vars

(***************************************************************************)
(* Claims about the interleave.                                            *)
(***************************************************************************)
\* position of commit c in the list s (0 when it is not there)
PosIn(s, c) == IF \E i \in DOMAIN s : s[i] = c
               THEN CHOOSE i \in DOMAIN s : s[i] = c
               ELSE 0

NonDecreasingByDate(s) == \A i, j \in DOMAIN s : i < j => s[i].Date <= s[j].Date

\* every repository's own new commits are in date order (git log lists the newest first)
EachRepoInDateOrder ==
  \A r \in DOMAIN commits : \A i, j \in DOMAIN commits[r] :
     i < j => commits[r][i].Date >= commits[r][j].Date

\* A = c1,c2,c3 with dates t1<t2<t3 and B = d1,d2 with dates t1.5, t2.5
ScenarioMap == CollectedMap(<<1, 3, 5>>, <<2, 4>>)

ScenarioOrder ==
  << MkCommit("api", 1, 1), MkCommit("operator-lifecycle-manager", 1, 2),
     MkCommit("api", 2, 3), MkCommit("operator-lifecycle-manager", 2, 4),
     MkCommit("api", 3, 5) >>

\* C1: the list detectNewCommits returns is chronological across repositories:
\* when every repository's own commits are in date order the list is
\* non-decreasing by date, and A = c1,c2,c3, B = d1,d2 gives c1,d1,c2,d2,c3.
C1_ChronologicalAcrossRepos ==
  (pc = "detected" /\ EachRepoInDateOrder) =>
     /\ NonDecreasingByDate(reversedCommits)
     /\ (commits = ScenarioMap => reversedCommits = ScenarioOrder)

\* C2: the returned list never inverts two commits of one repository: a commit
\* that is older in its repository's history precedes every younger one of
\* that repository, whatever the dates are.
C2_RepoOrderPreserved ==
  pc = "detected" =>
    \A r \in DOMAIN commits : \A i, j \in DOMAIN commits[r] :
       commits[r][i].Hash < commits[r][j].Hash =>
          /\ PosIn(reversedCommits, commits[r][i]) > 0
          /\ PosIn(reversedCommits, commits[r][i]) < PosIn(reversedCommits, commits[r][j])

\* a finished interleave of two repositories in which one repository's dates
\* run against its history and the other repository's commits lie in between
C2_Witness ==
  /\ pc = "detected"
  /\ DOMAIN commits = Repos
  /\ \E r \in Repos : \E i, j \in DOMAIN commits[r] :
        /\ commits[r][i].Hash < commits[r][j].Hash
        /\ commits[r][i].Date > commits[r][j].Date
        /\ \E k \in DOMAIN reversedCommits :
              /\ reversedCommits[k].Repo # r
              /\ PosIn(reversedCommits, commits[r][i]) < k
              /\ k < PosIn(reversedCommits, commits[r][j])

\* the whole loop with the map always ranged over in the order ord;
\* <<"panic">> when the loop indexes the nil slice
RECURSIVE InterleaveUnder(_, _, _, _, _)
InterleaveUnder(ord, cs, idx, t, acc) ==
  IF DOMAIN idx = {} THEN ReversedList(acc)
  ELSE LET order    == SelectSeq(ord, LAMBDA r : r \in DOMAIN idx)
           nextRepo == NextRepo(order, cs, idx, t)
       IN  IF nextRepo \notin DOMAIN cs THEN <<"panic">>
           ELSE InterleaveUnder(ord, cs, AdvanceIndices(cs, idx, nextRepo), t,
                                Append(acc, cs[nextRepo][idx[nextRepo] + 1]))

\* C3: the interleave is deterministic: the returned list is the one every
\* order of ranging over the repositories yields, equal dates included.
C3_SameListForEveryOrder ==
  (pc = "detected" /\ DOMAIN commits # {}) =>
    \A ord \in Perms(Repos) :
       reversedCommits = InterleaveUnder(ord, commits, [r \in DOMAIN commits |-> 0], now, <<>>)

(***************************************************************************)
(* Claims about one invocation and about repeated invocations of v0.       *)
(***************************************************************************)
\* a commit of hist carries both trailers of c
HasMarkers(hist, c) ==
  \E i \in 1..Len(hist) :
    hist[i].Marked /\ hist[i].Repo = c.Repo /\ hist[i].Hash = c.Hash

\* C4: Run never cherry-picks a commit c when the downstream history already
\* holds a commit with the trailers Upstream-repository: c.Repo and
\* Upstream-commit: c.Hash, whether c was detected or read from the commits
\* file.
C4_NeverPicksLandedCommit ==
  [][(pc = "pick" /\ Len(history') > Len(history))
       => ~HasMarkers(history, missingCommits[Len(picked) + 1])]_vars

Unreachable(repo) == lastCommits[repo] \notin Ancestors(refs[repo])

\* C7 (as stated): whenever the boundary of a repository is not reachable
\* from the upstream target, the detection of that repository adds no
\* commit, logs the warning and returns no error.
C7_UnreachableBoundaryWarns ==
  [][\A repo \in Repos :
       (CollectRepo(repo) /\ Unreachable(repo))
         => (repo \in warned' /\ repo \notin DOMAIN commits' /\ pc' # "fatal")]_vars

\* C7 (amended): with a boundary that is not reachable from the target, the
\* detection of the repository adds no commit and warns exactly when the
\* boundary is unknown to the local repository after the fetch of the target
\* and is found on upstream master (downstream is ahead of the target).  A
\* boundary that is still unknown after the fetch of master (rewritten
\* history) ends detection with the error, and a boundary the local
\* repository knows makes git log list the symmetric difference, without a
\* warning.
C7_WarnsOnlyWhenAheadOfTarget ==
  [][\A repo \in Repos :
       (CollectRepo(repo) /\ Unreachable(repo))
         => IF lastCommits[repo] \in objs[repo]
            THEN repo \notin warned' /\ repo \in DOMAIN commits' /\ pc' # "fatal"
            ELSE IF lastCommits[repo] \in Ancestors(UpstreamLen)
            THEN repo \in warned' /\ commits' = commits /\ pc' # "fatal"
            ELSE repo \notin warned' /\ commits' = commits /\ pc' = "fatal"]_vars

C7_Witness ==
  \E repo \in warned :
    /\ Unreachable(repo)
    /\ repo \notin DOMAIN commits
    /\ pc = "detected"

\* C8: when for a directory of the staging directory no commit of the central
\* branch with the marker pair is found, detection ends in a fatal error:
\* the run has no commit list, cherry-picks nothing, pushes nothing and
\* updates no pull request.
C8_NoMarkerFailsHard ==
  (/\ ~opts.input
   /\ pc \notin {"start", "walk"}
   /\ \E repo \in Repos : MarkerCommits(history, central, repo) = {})
    => /\ pc = "fatal"
       /\ commits = EmptyMap
       /\ reversedCommits = <<>>
       /\ runCommits = <<>>
       /\ missingCommits = <<>>
       /\ picked = <<>>
       /\ Len(history) = central
       /\ ~file.exists
       /\ ~pushed
       /\ ~prCommits.exists

C8_Witness ==
  /\ pc = "fatal"
  /\ ~opts.input
  /\ opts.mode = "publish"
  /\ MarkerCommits(history, central, "api") # {}
  /\ MarkerCommits(history, central, "operator-lifecycle-manager") = {}

(***************************************************************************)
(* Claims about v1 detection and about repeated invocations of v1.         *)
(***************************************************************************)
\* C6 (as stated): in a second run, with no new upstream activity, detection
\* does not report a repository that an earlier run has replayed.
C6_ReplayedIsNotReportedAgain ==
  (run > 1 /\ pc = "v1detected")
    => \A repo \in V1Repos : synchronize[repo].exists => repo \notin DOMAIN target

\* C6 (amended): in a second run without force-remerge, with no new upstream
\* activity, detection does not report a repository whose replay by an
\* earlier run has been merged into its main branch.
C6_MergedIsNotReportedAgain ==
  (run > 1 /\ pc = "v1detected" /\ ~v1opts.forceRemerge)
    => \A repo \in V1Repos :
         (synchronize[repo].exists /\ main[repo] = Merged(repo))
           => repo \notin DOMAIN target

C6_Witness ==
  /\ run > 1
  /\ pc = "v1detected"
  /\ ~v1opts.forceRemerge
  /\ \A repo \in V1Repos : synchronize[repo].exists /\ main[repo] = Merged(repo)
  /\ target = EmptyMap

\* the message does not start with the directive prefix
LacksDirectivePrefix(message) == message[1] # "UPSTREAM:"

IsCarryMessage(message) ==
  Len(message) >= 2 /\ message[1] = "UPSTREAM:" /\ message[2] = "<carry>:"

IsPullRequestMessage(message, id) ==
  Len(message) >= 2 /\ message[1] = "UPSTREAM:" /\ message[2] = id \o ":"

\* the candidate commits of a repository that is in the target set
CandidatesOf(repo) == DownstreamLog(repo, target[repo].Target)

\* the candidate is in the additional list of its repository
Included(repo, line) ==
  \E i \in 1..Len(target[repo].Additional) :
    /\ target[repo].Additional[i].Hash = line.Hash
    /\ target[repo].Additional[i].Message = line.Message

\* detectCarryCommits ran for the repository, or is about to
Classifies(repo) ==
  IF repo = "operator-controller"
  THEN ~IsUpToDate(repo, Len(upstream[repo]))
  ELSE v1opts.forceRemerge \/ ~IsUpToDate(repo, version)

\* a candidate without the directive prefix makes detection fail
FailsOnMissingPrefix ==
  /\ \A repo \in DOMAIN target :
       \A i \in 1..Len(CandidatesOf(repo)) :
         ~LacksDirectivePrefix(CandidatesOf(repo)[i].Message)
  /\ (pc # "v1start" /\ Classifies("operator-controller"))
       => ("operator-controller" \in DOMAIN target \/ pc = "fatal")
  /\ (pc = "v1detected" /\ Classifies("catalogd")) => "catalogd" \in DOMAIN target

\* C9 (as stated): a candidate commit whose message lacks the UPSTREAM:
\* prefix makes detection fail, and a candidate with the message
\* "UPSTREAM: <carry>: ..." is in the additional list.
C9_CarryIsIncluded ==
  /\ FailsOnMissingPrefix
  /\ \A repo \in DOMAIN target :
       \A i \in 1..Len(CandidatesOf(repo)) :
         IsCarryMessage(CandidatesOf(repo)[i].Message)
           => Included(repo, CandidatesOf(repo)[i])

\* an entry of the drop list that no empty entry precedes is a non-empty
\* prefix of the hash
DroppedByOption(hash) ==
  \E i \in 1..Len(v1opts.listDropCommits) :
    /\ v1opts.listDropCommits[i] # <<>>
    /\ HasPrefix(hash, v1opts.listDropCommits[i])
    /\ \A j \in 1..(i - 1) : v1opts.listDropCommits[j] # <<>>

\* C9 (amended): a candidate commit whose message lacks the UPSTREAM: prefix
\* makes detection fail, and a candidate with the message
\* "UPSTREAM: <carry>: ..." is in the additional list unless the drop-commits
\* option drops it.
C9_CarryIsIncludedUnlessDropped ==
  /\ FailsOnMissingPrefix
  /\ \A repo \in DOMAIN target :
       \A i \in 1..Len(CandidatesOf(repo)) :
         IsCarryMessage(CandidatesOf(repo)[i].Message)
           => (Included(repo, CandidatesOf(repo)[i])
                 <=> ~DroppedByOption(CandidatesOf(repo)[i].Hash))

C9_Witness ==
  /\ pc = "v1detected"
  /\ \E repo \in DOMAIN target :
       \E i, j \in 1..Len(CandidatesOf(repo)) :
         /\ IsCarryMessage(CandidatesOf(repo)[i].Message)
         /\ IsCarryMessage(CandidatesOf(repo)[j].Message)
         /\ Included(repo, CandidatesOf(repo)[i])
         /\ ~Included(repo, CandidatesOf(repo)[j])

\* the message ends with the reference to the pull request
HasSuffix(message, id) == message[Len(message)] = "(#" \o id \o ")"

\* C10: with an empty drop list, a candidate "UPSTREAM: 1234: ..." is left
\* out of the additional list exactly when a commit whose message ends with
\* "(#1234)" is in the upstream range being merged, from the merge base to
\* the target.
C10_ExcludedIffSuffixInMergedRange ==
  v1opts.listDropCommits = <<>>
    => \A repo \in DOMAIN target :
         \A i \in 1..Len(CandidatesOf(repo)) :
           IsPullRequestMessage(CandidatesOf(repo)[i].Message, "1234")
             => (~Included(repo, CandidatesOf(repo)[i])
                   <=> \E k \in (MergeBase(repo, target[repo].Target) + 1)..target[repo].Target :
                         HasSuffix(upstream[repo][k], "1234"))

\* C11: with an empty drop list, a candidate "UPSTREAM: 1234: ..." is left
\* out of the additional list only if the upstream history up to the target
\* has a commit whose message ends with "(#1234)"; a mention of "(#1234)"
\* elsewhere in a message excludes nothing.
C11_NoFalseExclude ==
  v1opts.listDropCommits = <<>>
    => \A repo \in DOMAIN target :
         \A i \in 1..Len(CandidatesOf(repo)) :
           (/\ IsPullRequestMessage(CandidatesOf(repo)[i].Message, "1234")
            /\ ~Included(repo, CandidatesOf(repo)[i]))
             => \E k \in 1..target[repo].Target : HasSuffix(upstream[repo][k], "1234")

\* an entry of the drop list is the hash or a prefix of it
MatchesDropList(hash) ==
  \E i \in 1..Len(v1opts.listDropCommits) :
    /\ v1opts.listDropCommits[i] # <<>>
    /\ HasPrefix(hash, v1opts.listDropCommits[i])

\* the commits that the log of the repository lists for its resolved target
LogOf(repo) ==
  DownstreamLog(repo, IF repo = "operator-controller" THEN Len(upstream[repo]) ELSE version)

\* detection is past the classification of the repository
Classified(repo) ==
  /\ Classifies(repo)
  /\ IF repo = "operator-controller" THEN pc # "v1start"
     ELSE pc = "v1detected" \/ (pc = "fatal" /\ "operator-controller" \in DOMAIN target)
                            \/ (pc = "fatal" /\ ~Classifies("operator-controller"))

\* C12: a candidate commit whose hash has an entry of the drop list as prefix
\* is left out of the additional list whatever its message is: the drop list
\* overrides the classification of the message, also where that would be
\* the error for a message without directive.
C12_DropListOverridesClassification ==
  /\ \A repo \in DOMAIN target :
       \A i \in 1..Len(CandidatesOf(repo)) :
         MatchesDropList(CandidatesOf(repo)[i].Hash) => ~Included(repo, CandidatesOf(repo)[i])
  /\ \A repo \in V1Repos :
       (/\ Classified(repo)
        /\ \A i \in 1..Len(LogOf(repo)) :
             LacksDirectivePrefix(LogOf(repo)[i].Message) => MatchesDropList(LogOf(repo)[i].Hash))
         => repo \in DOMAIN target

\* C13: the additional list is a subsequence of the candidate commits in
\* their oldest-first order: nothing is reordered, nothing is there twice.
C13_AdditionalIsSubsequence ==
  \A repo \in DOMAIN target :
    LET additional == target[repo].Additional
        candidates == CandidatesOf(repo)
    IN  \E at \in [1..Len(additional) -> 1..Len(candidates)] :
          /\ \A i \in 1..Len(additional) :
               /\ additional[i].Hash = candidates[at[i]].Hash
               /\ additional[i].Message = candidates[at[i]].Message
               /\ additional[i].Repo = repo
          /\ \A i, j \in 1..Len(additional) : i < j => at[i] < at[j]

C13_Witness ==
  /\ pc = "v1detected"
  /\ \E repo \in DOMAIN target :
       /\ Len(target[repo].Additional) >= 2
       /\ target[repo].Additional[1].Message # target[repo].Additional[2].Message

\* the commit detection resolves as the target of repo
ResolvedTarget(repo) ==
  IF repo = "operator-controller" THEN Len(upstream[repo]) ELSE version

\* the step of detection that looks at repo
DetectsAt(repo) == IF repo = "operator-controller" THEN "v1start" ELSE "v1catalogd"

\* C14: without force-remerge, a repository whose resolved target commit is
\* already an ancestor of its main branch is skipped entirely: no step of the
\* run puts it in the target set, the detection step that looks at it does
\* not classify its commits (it cannot end the run with "unexpected commit
\* message"), and applyConfig is not called for it (its branch synchronize
\* and its checkout stay as they are, it is never among the applied).
C14_UpToDateIsSkipped ==
  [][\A repo \in V1Repos :
       (/\ ~v1opts.forceRemerge
        /\ IsUpToDate(repo, ResolvedTarget(repo)))
         => /\ repo \notin DOMAIN target'
            /\ (pc = DetectsAt(repo) => pc' # "fatal")
            /\ synchronize'[repo] = synchronize[repo]
            /\ checkout'[repo] = checkout[repo]
            /\ repo \notin applied']_vars

\* a run that replayed one repository has ended, and the other repository,
\* whose commit on top has a message detection would refuse, was skipped
C14_Witness ==
  /\ pc = "done"
  /\ ~v1opts.forceRemerge
  /\ applied # {}
  /\ \E repo \in V1Repos :
       /\ IsUpToDate(repo, ResolvedTarget(repo))
       /\ main[repo].carries # <<>>
       /\ LacksDirectivePrefix(main[repo].carries[1].Message)
       /\ repo \notin DOMAIN target

\* the v1 run is past detection
DetectionDone == pc \in {"v1detected", "apply", "gomod", "publish", "v1pr"}

\* the step leaves the v0 checkout, its pushed branch and its pull request alone
UntouchedV0 == UNCHANGED <<history, picked, pushed, prCommits>>

\* the step replays nothing and publishes nothing in v1
NoReplayV1 == UNCHANGED <<synchronize, checkout, applied, pushedRepos, published>>

\* C15 as stated: when detection finds nothing to do (v0: no missing commit,
\* v1: empty target set) the rest of the run is short-circuited: no
\* cherry-pick, no go.mod rewrite, no commit, no push and no PR update.
C15_NothingToDoShortCircuits ==
  [][/\ (pc \in {"detected", "loaded"} /\ missingCommits' = <<>>)
          => pc' = "done" /\ UntouchedV0
     /\ (DetectionDone /\ DOMAIN target = {})
          => NoReplayV1 /\ UNCHANGED <<main, replaced>>]_vars

\* C15 amended: when detection finds nothing to do, v0 returns right after
\* it (no cherry-pick, commit, push or PR update), and v1 calls applyConfig
\* for no repository, pushes nothing and updates no pull request; but in
\* Synchronize and Publish modes v1 still rewrites go.mod of
\* operator-controller: it writes the replace directive for catalogd and
\* may commit it as "UPSTREAM: <drop>: rewrite go mod" on the branch that
\* is checked out.
C15_NothingToDoOnlyRewritesGoMod ==
  [][/\ (pc \in {"detected", "loaded"} /\ missingCommits' = <<>>)
          => pc' = "done" /\ UntouchedV0
     /\ (DetectionDone /\ DOMAIN target = {})
          => /\ NoReplayV1
             /\ replaced' \in {replaced, {"catalogd"}}
             /\ main' \in {main, Committed(main, "operator-controller", RewriteCommit)}
             /\ (main' # main \/ replaced' # replaced)
                  => pc = "gomod" /\ v1opts.mode # "summarize"]_vars

\* a v1 run that found every repository up to date has ended after it
\* wrote the replace directive and committed it on main
C15_Witness ==
  /\ pc = "done"
  /\ v1opts.mode \in {"synchronize", "publish"}
  /\ DOMAIN target = {}
  /\ replaced = {"catalogd"}
  /\ main["operator-controller"].carries # <<>>
  /\ main["operator-controller"].carries[Len(main["operator-controller"].carries)] = RewriteCommit

\* applyConfig is called for repo with an empty additional list and a
\* target that is the head of downstream main
NothingToReplay(repo) ==
  /\ pc = "apply"
  /\ repo \in pending
  /\ target[repo].Additional = <<>>
  /\ main[repo].carries = <<>>
  /\ main[repo].base = target[repo].Target

\* the messages of the commits of a branch
MessagesOf(branch) == [i \in 1..Len(branch.carries) |-> branch.carries[i].Message]

CommitCheckerMessage == <<"UPSTREAM:", "<drop>:", "configure", "the", "commit-checker">>

\* the messages of the commits a complete applyConfig makes after its cherry-picks
GeneratedMessages ==
  << <<"UPSTREAM:", "<drop>:", "go", "mod", "vendor">>,
     <<"UPSTREAM:", "<drop>:", "remove", "upstream", "GitHub", "configuration">> >>
    \o (IF v1opts.delayManifestGeneration
        THEN << <<"UPSTREAM:", "<drop>:", "Generate", "manifests">> >> ELSE << >>)
    \o << CommitCheckerMessage >>

\* C16 as stated: applyConfig with nothing to replay is a successful no-op:
\* it returns without error, and the commit of the bookkeeping record
\* (commitchecker.yaml) is the only commit it creates on the working branch.
C16_NothingToReplayIsNoOp ==
  [][\A repo \in V1Repos :
       (NothingToReplay(repo) /\ synchronize'[repo] # synchronize[repo])
         => /\ repo \in applied'
            /\ MessagesOf(synchronize'[repo]) = << CommitCheckerMessage >>]_vars

\* C16 amended: applyConfig with nothing to replay cherry-picks nothing but
\* is no no-op.  When it returns without error the branch synchronize is at
\* the target and has exactly the generated commits, in this order: go mod
\* vendor, remove upstream GitHub configuration, Generate manifests (only
\* with delayed manifest generation), configure the commit-checker.  When a
\* command fails it returns the error and the branch has the commits made
\* until then.
C16_NothingToReplayStillGenerates ==
  [][\A repo \in V1Repos :
       NothingToReplay(repo)
         => /\ repo \in applied'
                 => /\ synchronize'[repo].exists
                    /\ synchronize'[repo].target = target[repo].Target
                    /\ MessagesOf(synchronize'[repo]) = GeneratedMessages
                    /\ checkout'[repo] = "synchronize"
            /\ (repo \notin applied' /\ synchronize'[repo] # synchronize[repo])
                 => /\ pc' = "fatal"
                    /\ \E n \in 0..(Len(GeneratedMessages) - 1) :
                         MessagesOf(synchronize'[repo]) = SubSeq(GeneratedMessages, 1, n)]_vars

\* applyConfig has returned without error for a repository that had
\* nothing to replay
C16_Witness ==
  \E repo \in applied :
    /\ target[repo].Additional = <<>>
    /\ main[repo].carries = <<>>
    /\ main[repo].base = target[repo].Target
    /\ Len(synchronize[repo].carries) >= 3

\* C17: rewriteGoMod starts only after every applyConfig of the run has
\* returned without error, so a replace directive that points a dependency
\* at its fork is written only once that dependency has completed its
\* replay in this run or was left out of the target set as up to date.
C17_RewriteAfterEveryReplay ==
  (pc = "gomod" \/ replaced # {})
    => /\ applied = DOMAIN target
       /\ \A dep \in replaced : dep \in applied \/ dep \notin DOMAIN target

\* the replace directive was written in a run that replayed operator-controller
C17_Witness ==
  /\ replaced = {"catalogd"}
  /\ applied = {"operator-controller"}
  /\ DOMAIN target = {"operator-controller"}

\* C18: go.mod of operator-controller gets a replace directive for catalogd
\* only in a run whose target set does not have catalogd; a run that has
\* catalogd in its target set writes no replace directive.
C18_ReplaceOnlyWithoutOutstandingMerge ==
  /\ replaced \subseteq {"catalogd"}
  /\ "catalogd" \in DOMAIN target => replaced = {}

\* rewriteGoMod has run to its end in a run that replayed catalogd
C18_Witness ==
  /\ pc = "done"
  /\ v1opts.mode = "synchronize"
  /\ "catalogd" \in DOMAIN target
  /\ applied = DOMAIN target
  /\ replaced = {}

\* the run is one of the v1 tool
ToolIsV1 == upstream["operator-controller"] # <<>>

\* the mode of the run
ModeOfRun == IF ToolIsV1 THEN v1opts.mode ELSE opts.mode

\* C19: in Summarize mode the run only reports: no step of it changes a
\* branch, HEAD, the index or a working-tree file of a tracked repository,
\* creates a commit, pushes or updates a pull request (v0 and v1).
C19_SummarizeOnlyReports ==
  [][ModeOfRun = "summarize"
       => /\ UNCHANGED <<history, picked, pushed, prCommits>>
          /\ UNCHANGED <<main, synchronize, checkout, replaced, pushedRepos, published>>]_vars

\* the step pushes a branch
Pushes == pushed' # pushed \/ pushedRepos' # pushedRepos

\* the step creates or updates a pull request
UpdatesPullRequest == prCommits' # prCommits \/ published' # published

\* every replay of the run has completed without error, and in v1 the
\* go.mod rewrite has too
ReplayComplete ==
  IF ToolIsV1
  THEN /\ applied = DOMAIN target
       /\ ({"catalogd"} \ DOMAIN target) \subseteq replaced
       /\ pc \in {"publish", "v1pr"}
  ELSE /\ missingCommits # <<>>
       /\ picked = missingCommits

\* C20: a push or a PR create/update happens only in Publish mode, only
\* after the replay of every repository (and in v1 the go.mod rewrite) has
\* completed without error, and the pull request of a repository is only
\* created or updated after the push of that repository.
C20_PublishOnlyAfterReplay ==
  [][/\ (Pushes \/ UpdatesPullRequest) => ModeOfRun = "publish" /\ ReplayComplete
     /\ prCommits' # prCommits => pushed
     /\ (published' \ published) \subseteq pushedRepos]_vars

\* a v1 run in Publish mode has pushed both repositories and updated both
\* pull requests
C20_Witness ==
  /\ pc = "done"
  /\ ToolIsV1
  /\ v1opts.mode = "publish"
  /\ pushedRepos = V1Repos
  /\ published = V1Repos

\* the position of the commit with that hash on the branch, 0 when it is not there
PositionOf(branch, hash) ==
  IF \E k \in 1..Len(branch.carries) : branch.carries[k].Hash = hash
  THEN CHOOSE k \in 1..Len(branch.carries) : branch.carries[k].Hash = hash
  ELSE 0

\* the cherry-pick of the i-th commit to carry of repo has left its commit
Landed(repo, i) == PositionOf(synchronize[repo], target[repo].Additional[i].Hash) > 0

\* the run has started the cherry-pick of the i-th commit to carry of repo
Attempted(repo, i) ==
  Landed(repo, i) \/ <<repo, target[repo].Additional[i].Hash>> \in conflicted

\* the loop of applyConfig has gone past the i-th commit to carry of repo
Passed(repo, i) ==
  Landed(repo, i) \/ <<repo, target[repo].Additional[i].Hash>> \in prompted

\* C21: applyConfig cherry-picks the carries in the order of the additional
\* list, only on a branch synchronize that was reset to the target; it
\* starts a carry only when the loop has gone past every earlier one (its
\* commit is there, or the operator was asked and went on); and the
\* bookkeeping commit comes after every carry and directly after the other
\* generated commits.
C21_CarriesInOrderThenBookkeeping ==
  \A repo \in DOMAIN target :
    synchronize[repo].exists =>
      LET additional == target[repo].Additional
          branch     == synchronize[repo]
          n          == Len(GeneratedMessages)
      IN  /\ branch.target = target[repo].Target
          /\ \A i, j \in 1..Len(additional) :
               (i < j /\ Landed(repo, i) /\ Landed(repo, j))
                 => PositionOf(branch, additional[i].Hash) < PositionOf(branch, additional[j].Hash)
          /\ \A i, j \in 1..Len(additional) :
               (i < j /\ Attempted(repo, j)) => Passed(repo, i)
          /\ \A k \in 1..Len(branch.carries) :
               branch.carries[k].Message = CommitCheckerMessage
                 => /\ \A i \in 1..Len(additional) :
                         Passed(repo, i) /\ PositionOf(branch, additional[i].Hash) < k
                    /\ k >= n
                    /\ SubSeq(MessagesOf(branch), k - n + 1, k) = GeneratedMessages

\* applyConfig has returned without error for a repository with two
\* commits to carry, and both are on the branch
C21_Witness ==
  \E repo \in applied :
    /\ Len(target[repo].Additional) = 2
    /\ Landed(repo, 1)
    /\ Landed(repo, 2)

\* applyConfig of repo was called in this run and returned an error
ReplayFailed(repo) ==
  /\ pc = "fatal"
  /\ repo \in DOMAIN target
  /\ repo \notin applied
  /\ synchronize[repo].exists

\* C22: when the replay of a repository fails at any step, no bookkeeping
\* record of this run exists for it: commitchecker.yaml was not written to
\* its working directory and the bookkeeping commit is not on its branch.
C22_NoBookkeepingOnFailure ==
  \A repo \in V1Repos :
    ReplayFailed(repo)
      => /\ repo \notin checkerWritten
         /\ \A k \in 1..Len(synchronize[repo].carries) :
              synchronize[repo].carries[k].Message # CommitCheckerMessage

\* the bookkeeping commit of this run is on the branch synchronize of repo
HasBookkeeping(repo) ==
  /\ repo \in applied
  /\ \E k \in 1..Len(synchronize[repo].carries) :
       synchronize[repo].carries[k].Message = CommitCheckerMessage

\* C23 as stated: the bookkeeping commit is the last thing the run does in
\* a repository: after it the run makes no commit and no working-tree
\* change there.
C23_BookkeepingIsTerminal ==
  [][\A repo \in V1Repos :
       HasBookkeeping(repo)
         => /\ synchronize'[repo] = synchronize[repo]
            /\ checkout'[repo] = checkout[repo]
            /\ manifests'[repo] = manifests[repo]
            /\ repo = "operator-controller" => replaced' = replaced]_vars

\* C23 amended: after the bookkeeping commit of catalogd the run changes
\* nothing more in catalogd.  After the bookkeeping commit of
\* operator-controller the run still rewrites go.mod there: rewriteGoMod,
\* which runs once every applyConfig has returned, writes the replace
\* directive for catalogd and may commit "UPSTREAM: <drop>: rewrite go mod"
\* on top of the bookkeeping commit; nothing else changes.
C23_OnlyGoModAfterBookkeeping ==
  [][\A repo \in V1Repos :
       HasBookkeeping(repo)
         => /\ checkout'[repo] = checkout[repo]
            /\ manifests'[repo] = manifests[repo]
            /\ IF repo = "operator-controller"
               THEN /\ synchronize'[repo] \in
                         {synchronize[repo],
                          [synchronize[repo] EXCEPT !.carries = Append(@, RewriteCommit)]}
                    /\ replaced' \in {replaced, {"catalogd"}}
                    /\ (synchronize'[repo] # synchronize[repo] \/ replaced' # replaced)
                         => pc = "gomod" /\ applied = DOMAIN target
               ELSE synchronize'[repo] = synchronize[repo]]_vars

\* the run has ended with the go.mod rewrite committed on top of the
\* bookkeeping commit of operator-controller
C23_Witness ==
  /\ pc = "done"
  /\ HasBookkeeping("operator-controller")
  /\ replaced = {"catalogd"}
  /\ LET branch == synchronize["operator-controller"]
     IN  /\ Len(branch.carries) >= 2
         /\ branch.carries[Len(branch.carries)] = RewriteCommit
         /\ branch.carries[Len(branch.carries) - 1].Message = CommitCheckerMessage

(***************************************************************************)
(* C24: conflicts of a cherry-pick                                         *)
(***************************************************************************)
\* the two shapes of a failure that v0 cherryPick recovers from
KnownShapes == {"vendor/modules.txt deleted", "go.mod conflict"}

\* the output of the cherry-pick names a conflict outside the known shapes
UnknownConflict(output) == output \ KnownShapes # {}

\* v0: the step ran git cherry-pick
PicksV0 == pc = "pick" /\ ~ToolIsV1

\* v1: the carries of repo whose cherry-pick failed in this step
NewlyConflicted(repo) ==
  {c \in conflicted' \ conflicted : c[1] = repo}

\* C24: a conflict outside the known shapes is never resolved by the tool.
\* v0: when the output of git cherry-pick names such a conflict, the run ends
\* fatal and the branch and the list of completed cherry-picks are as before;
\* a cherry-pick that failed lands only when its output names nothing but the
\* known shapes.  v1: a carry whose cherry-pick failed is either the one at
\* which the operator was asked (pauseOnCherryPickError is set), or the run
\* is fatal, the carry is not on the branch and no generated commit follows.
C24_UnknownConflictNotResolved ==
  [][/\ PicksV0 /\ UnknownConflict(cherryPickOutput')
         => pc' = "fatal" /\ UNCHANGED <<history, picked>>
     /\ PicksV0 /\ cherryPickOutput' # {} /\ history' # history
         => cherryPickOutput' \subseteq KnownShapes
     /\ \A repo \in V1Repos : \A c \in NewlyConflicted(repo) :
          \/ c \in prompted' /\ v1opts.pauseOnCherryPickError
          \/ /\ pc' = "fatal"
             /\ \A i \in 1..Len(target[repo].Additional) :
                  target[repo].Additional[i].Hash = c[2] => ~Landed(repo, i)'
             /\ ~HasBookkeeping(repo)']_vars

\* a v0 cherry-pick whose output named a known shape and another conflict has
\* ended the run
C24_Witness ==
  /\ ~ToolIsV1
  /\ pc = "fatal"
  /\ UnknownConflict(cherryPickOutput)
  /\ cherryPickOutput \cap KnownShapes # {}

(***************************************************************************)
(* C25: deferred manifest generation                                       *)
(***************************************************************************)
\* C25: when applyConfig has returned without error for a repository, the
\* last thing the run did to openshift/manifests was to generate them,
\* whether delayManifestGeneration is set or not.
C25_ManifestsGeneratedEitherWay ==
  \A repo \in applied : manifests[repo] = "generated"

(***************************************************************************)
(* Claims about the resolution of versions.                                *)
(***************************************************************************)
\* getTagOrCommit has returned, "go list" had reported the version
ReturnedV0 == ret.called /\ ret.by = "getTagOrCommit" /\ ret.listed

\* the positions of the hyphens of a string
HyphensOf(s) == {i \in 1..Len(s) : s[i] = "-"}

\* what follows the last hyphen of a string
FinalToken(s) ==
  LET last == CHOOSE i \in HyphensOf(s) : \A j \in HyphensOf(s) : j <= i
  IN  SubSeq(s, last + 1, Len(s))

\* the version is a semantic version: the core, and a pre-release if any
WellFormed(v) == ~NewVersion(v).err

\* C26 as stated: a version without pre-release is returned unchanged; a
\* pre-release of two or more hyphen-separated tokens resolves to the final
\* token; every other version returns an error and no ref.
C26_FinalTokenOfAnyPrerelease ==
  ReturnedV0 =>
    IF WellFormed(arg) /\ Len(arg) = 1
    THEN ~ret.err /\ ret.ref = arg
    ELSE IF WellFormed(arg) /\ Cardinality(HyphensOf(arg)) >= 2
    THEN ~ret.err /\ ret.ref = FinalToken(arg)
    ELSE ret.err /\ ret.ref = <<>>

\* C26: a version without pre-release is returned unchanged; a pre-release
\* of exactly two hyphen-separated tokens resolves to the second, which is
\* the final one; every other version, a pre-release of three or more
\* hyphen-separated tokens included, returns an error and no ref.
C26_SecondOfTwoTokens ==
  ReturnedV0 =>
    IF WellFormed(arg) /\ Len(arg) = 1
    THEN ~ret.err /\ ret.ref = arg
    ELSE IF WellFormed(arg) /\ Cardinality(HyphensOf(arg)) = 2
    THEN ~ret.err /\ ret.ref = FinalToken(arg)
    ELSE ret.err /\ ret.ref = <<>>

\* getTagOrCommit has resolved a pseudo-version on a pre-release base,
\* v1.2.3-0.<date>-<commit>, to its commit
C26_Witness ==
  /\ ReturnedV0
  /\ arg = <<"v1.2.3", "-", "0", ".", "20240102030405", "-", "0123abcd4567">>
  /\ ~ret.err
  /\ ret.ref = <<"0123abcd4567">>

\* detectNewCommits has looked at a version that git rev-parse did not resolve
ReturnedV1 == ret.called /\ ret.by = "detectNewCommits" /\ ~ret.tagged

\* v1.2.3-<date>-<commit>, the shape of a pseudo-version without a base
DirectPseudoVersion(v) ==
  /\ Len(v) = 5
  /\ v[2] = "-" /\ v[3] \in FourteenDigits /\ v[4] = "-" /\ v[5] \in HexTokens

\* a pre-release that ends in .<date>-<commit>
EndsInDateCommit(v) ==
  /\ Len(v) >= 7
  /\ v[2] = "-"
  /\ v[Len(v) - 3] = "." /\ v[Len(v) - 2] \in FourteenDigits
  /\ v[Len(v) - 1] = "-" /\ v[Len(v)] \in HexTokens

\* C27: when git rev-parse does not resolve the version, a version of the
\* shape <core>-<date>-<commit> or one whose pre-release ends in
\* .<date>-<commit> resolves to <commit>; for every other version the
\* detection fails.
C27_SyntheticVersionResolves ==
  ReturnedV1 =>
    IF DirectPseudoVersion(arg) \/ EndsInDateCommit(arg)
    THEN ~ret.err /\ ret.ref = <<arg[Len(arg)]>>
    ELSE ret.err

(***************************************************************************)
(* Claims about ParseFormat.                                               *)
(***************************************************************************)
\* ParseFormat has returned
Parsed == ret.called /\ ret.by = "ParseFormat"

\* the positions of the separators of a line
SeparatorsOf(line) == {i \in 1..Len(line) : line[i] = Nbsp}

\* the k-th of the four fields of a line with three separators
FieldOf(line, k) ==
  LET seps  == SeparatorsOf(line)
      first == CHOOSE i \in seps : \A j \in seps : i <= j
      last  == CHOOSE i \in seps : \A j \in seps : j <= i
      mid   == CHOOSE i \in seps : i # first /\ i # last
  IN  CASE k = 1 -> SubSeq(line, 1, first - 1)
        [] k = 2 -> SubSeq(line, first + 1, mid - 1)
        [] k = 3 -> SubSeq(line, mid + 1, last - 1)
        [] k = 4 -> SubSeq(line, last + 1, Len(line))

\* the field is one timestamp with a zone
ZonedTimestamp(field) == Len(field) = 1 /\ field[1] \in DOMAIN Rfc3339

\* C28: ParseFormat returns a Commit exactly when the line has four fields
\* and the second one is a timestamp of RFC 3339 with its zone; then Hash,
\* Date, Author and Message are the four fields in that order, the date as
\* the time it denotes; otherwise it returns an error and the empty Commit.
C28_FourFieldsAndZonedTime ==
  Parsed =>
    IF Cardinality(SeparatorsOf(arg)) = 3 /\ ZonedTimestamp(FieldOf(arg, 2))
    THEN /\ ~ret.err
         /\ ret.commit = [Hash |-> FieldOf(arg, 1), Date |-> Rfc3339[FieldOf(arg, 2)[1]],
                          Author |-> FieldOf(arg, 3), Message |-> FieldOf(arg, 4)]
    ELSE ret.err /\ ret.commit = EmptyCommit

\* ParseFormat has returned the commit of a line whose date has the zone
\* +02:00 and whose subject has two words
C28_Witness ==
  /\ Parsed
  /\ ~ret.err
  /\ ret.commit.Hash = <<"0123abcd4567">>
  /\ ret.commit.Date = [instant |-> 1, offset |-> 2]
  /\ ret.commit.Message = <<"fix", "bug">>

(***************************************************************************)
(* C29: the commits file                                                   *)
(***************************************************************************)
\* the run was given --commits-input
InputGiven == IF ToolIsV1 THEN v1opts.input ELSE opts.input

\* where a run is while it detects
DetectionSteps ==
  {"walk", "collect", "collected", "interleave", "reverse", "detected", "v1catalogd"}

\* the work items the replay of the run is driven by, as json.Marshal writes them
WorkItems == IF ToolIsV1 THEN MarshalConfigs(target) ELSE MarshalCommits(missingCommits)

\* the run has its work items: v0 is past the isCommitMissing loop, v1 past
\* the detection or the reading of the file
HasWorkItems ==
  IF ToolIsV1 THEN pc \in {"v1detected", "apply", "gomod", "publish", "v1pr", "done"}
  ELSE pc \in {"summarize", "pick", "push", "pr", "done"}

\* C29: a run with a commits-input file never is at a step of the detection,
\* fetches nothing and scans nothing; once it has its work items they are
\* what the file holds, which is what the run that wrote the file had
\* detected; and it cherry-picks them in the order of the file.
C29_ResumeReplaysTheFile ==
  /\ InputGiven =>
       /\ pc \notin DetectionSteps
       /\ lastCommits = EmptyMap /\ commits = EmptyMap /\ orderedCommits = <<>>
  /\ (InputGiven /\ file.exists /\ HasWorkItems) => WorkItems = file.commits
  /\ (~InputGiven /\ file.exists /\ HasWorkItems /\ pc # "v1detected")
       => WorkItems = file.commits
  /\ (InputGiven /\ ~ToolIsV1 /\ HasWorkItems)
       => picked = SubSeq(UnmarshalCommits(file.commits), 1, Len(picked))
  /\ (InputGiven /\ ToolIsV1) =>
       \A repo \in applied :
         /\ synchronize[repo].target = file.commits[repo].target.hash
         /\ \A i \in 1..Len(file.commits[repo].additional) :
              synchronize[repo].carries[i].Hash = file.commits[repo].additional[i]["hash"]

\* the second run has replayed what the first one wrote: v1 has applied a
\* configuration with two commits to carry that it read from the file
C29_Witness ==
  /\ ToolIsV1
  /\ run = 2
  /\ v1opts.input
  /\ \E repo \in applied : Len(file.commits[repo].additional) = 2

(***************************************************************************)
(* C30: cancellation                                                       *)
(***************************************************************************)
\* the run has ended with a failure
EndedInFailure == pc \in {"fatal", "failed"}

\* C30: once the context is cancelled, the run ends with a failure without
\* any answer of the operator, and from then on nothing is pushed, no pull
\* request is updated, no commit is made and commitchecker.yaml is not
\* written.
C30_CancelledRunIsAbandoned ==
  /\ [][cancelled => UNCHANGED <<pushed, pushedRepos, prCommits, published, history,
                                synchronize, main, checkerWritten>>]_vars
  /\ cancelled ~> EndedInFailure


(***************************************************************************)
(* C31.                                                                    *)
(***************************************************************************)
\* applyConfig got past git merge --strategy ours in the directory of repo
Adopted(repo) == synchronize[repo].merge # NoMerge

BoundaryFound(repo) == ~opts.input /\ repo \in DOMAIN lastCommits

\* the k-th most recent commit of the central ref with the marker pair of repo
KthNewestMarker(repo, k) ==
  LET m == MarkerCommits(history, central, repo)
  IN  CHOOSE i \in m : Cardinality({j \in m : j > i}) = k - 1

C33_ForceRemergeIncludesEveryRepo ==
  (/\ v1opts.forceRemerge
   /\ ~v1opts.input
   /\ DetectionDone \/ pc = "done")
    => /\ DOMAIN target = V1Repos
       /\ (pc = "done" /\ v1opts.mode # "summarize") => applied = V1Repos

(***************************************************************************)
(* C34.                                                                    *)
(***************************************************************************)
\* the carries at which the operator has answered
Answered == {<<a[1], a[2]>> : a \in answers}

\* C34: the run reads operator input only with pause-on-cherry-pick-error
\* and only at a commit whose cherry-pick has failed (a failure of any
\* other command never pauses).  On 'q' or a read error applyConfig returns
\* the error without starting the follow-up commands of that commit; on any
\* other line the follow-up commands of that commit are started.  Without
\* the option no input is read and a failed cherry-pick ends applyConfig at
\* once.
C34_PausesOnlyOnCherryPickError ==
  /\ prompted \subseteq conflicted
  /\ Answered = prompted
  /\ prompted # {} => v1opts.pauseOnCherryPickError
  /\ \A a \in answers :
       IF a[3] \in {"q", "read error"}
       THEN /\ <<a[1], a[2]>> \notin followups
            /\ a[1] \notin applied
            /\ pc = "fatal"
       ELSE <<a[1], a[2]>> \in followups
  /\ ~v1opts.pauseOnCherryPickError =>
       /\ answers = {}
       /\ \A c \in conflicted :
            /\ c \notin followups
            /\ c[1] \notin applied
            /\ pc = "fatal"

\* a run that went on after one failed cherry-pick and was ended with 'q'
\* at the next
C34_Witness ==
  /\ pc = "fatal"
  /\ v1opts.pauseOnCherryPickError
  /\ \E a \in answers, b \in answers :
       /\ a[1] = b[1]
       /\ a[3] = "line"
       /\ b[3] = "q"

(***************************************************************************)
(* C35.                                                                    *)
(***************************************************************************)
\* every commit that was collected
CollectedCommits == UNION {Range(commits[r]) : r \in DOMAIN commits}

\* C35: the interleave loop never ends abnormally, whatever the dates of
\* the commits and the wall clock are: every iteration selects a repository
\* that still has an unconsumed commit, and the list that is returned holds
\* every collected commit exactly once.
C35_InterleaveEndsNormally ==
  /\ pc # "panic"
  /\ pc = "interleave" =>
       \A order \in Perms(DOMAIN indices) :
         NextRepo(order, commits, indices, now) \in DOMAIN indices
  /\ pc = "detected" =>
       /\ Range(reversedCommits) = CollectedCommits
       /\ Len(reversedCommits) = Cardinality(CollectedCommits)

(***************************************************************************)
(* C36.                                                                    *)
(***************************************************************************)
\* the run made a commit in the directory of repo: applyConfig left the
\* branch synchronize there, or rewriteGoMod committed on main
CreatedCommits(repo) ==
  \/ synchronize[repo].exists
  \/ RewriteCommit \in Range(main[repo].carries)

\* C36: after a Publish run that ended well, every repository in which the
\* run made a commit, the "rewrite go mod" commit in operator-controller
\* included, has its branch pushed and its pull request updated.
C36_NoCommitStaysLocal ==
  (pc = "done" /\ v1opts.mode = "publish") =>
    \A repo \in V1Repos :
      CreatedCommits(repo) => repo \in pushedRepos /\ repo \in published

(***************************************************************************)
(* C37.                                                                    *)
(***************************************************************************)
\* C37: the body of the pull request a v0 Publish run updates lists the
\* commits the run cherry-picked, the missing ones, in the order of the
\* replay; a detected commit that was filtered out as applied already is
\* not in it.
C37_BodyListsPickedCommits ==
  prCommits.exists =>
    /\ prCommits.commits = picked
    /\ prCommits.commits = missingCommits
    /\ \A c \in Range(runCommits) :
         c \notin Range(missingCommits) => c \notin Range(prCommits.commits)

(***************************************************************************)
(* C38.                                                                    *)
(***************************************************************************)
\* the message of the candidate alone would put it in the additional list:
\* a <carry>, or a pull request whose merge the target does not hold
KeptByMessage(repo, line) ==
  LET match == TrimDirective(UpstreamCommitRegex(line.Message))
  IN  /\ UpstreamCommitRegex(line.Message) # NoMatch
      /\ match # "drop"
      /\ match # "carry" => ~GrepLog(repo, "(#" \o match \o ")", target[repo].Target)

\* the drop-commits option is what keeps the candidate out of the list
DroppedOnAccountOfOption(repo, line) ==
  KeptByMessage(repo, line) /\ ~Included(repo, line)

\* C38: whatever the value of --drop-commits is, empty elements included, a
\* commit is dropped on account of the option only if one of its
\* comma-separated entries is a non-empty prefix of the hash of the commit.
C38_DroppedOnlyByNonEmptyPrefix ==
  \A repo \in DOMAIN target :
    \A i \in 1..Len(CandidatesOf(repo)) :
      DroppedOnAccountOfOption(repo, CandidatesOf(repo)[i])
        => \E dropCommits \in DropStrings :
             /\ v1opts.listDropCommits = Validate(dropCommits)
             /\ \E entry \in Range(Split(dropCommits, ",")) :
                  entry # <<>> /\ HasPrefix(CandidatesOf(repo)[i].Hash, entry)

\* with a trailing comma in the option, one commit is dropped and another,
\* of which only the empty entry is a prefix, is carried
C38_Witness ==
  /\ pc = "v1detected"
  /\ Len(v1opts.listDropCommits) = 2
  /\ v1opts.listDropCommits[2] = <<>>
  /\ \E repo \in DOMAIN target :
       \E i, j \in 1..Len(CandidatesOf(repo)) :
         /\ DroppedOnAccountOfOption(repo, CandidatesOf(repo)[i])
         /\ KeptByMessage(repo, CandidatesOf(repo)[j])
         /\ Included(repo, CandidatesOf(repo)[j])

(***************************************************************************)
(* The bodies of the pull requests: GetBody and GetBodyV1                  *)
(* (pkg/internal/formatting.go 75-165).                                    *)
(*                                                                         *)
(* Only the lengths matter here.  A text is a sequence of runs: bytes is   *)
(* the number of bytes of the run, width the number of bytes that          *)
(* html.EscapeString writes for each of them (1 for a byte it leaves       *)
(* alone, 4 for < and >, 5 for &, the quote and the apostrophe).           *)
(***************************************************************************)
\* the most commits a body is made for
MaxRows == 2

\* the length of a message that fills a body on its own
LongMessage == 70000

Bytes(n) == <<[bytes |-> n, width |-> 1]>>
Text(str) == Bytes(Len(str))
Special(n, w) == <<[bytes |-> n, width |-> w]>>
Newline == [bytes |-> 1, width |-> 1]

\* the bytes of the runs lo to hi of s
RECURSIVE BytesOf(_, _, _)
BytesOf(s, lo, hi) ==
  IF lo > hi THEN 0
  ELSE IF lo = hi THEN s[lo].bytes
  ELSE BytesOf(s, lo, (lo + hi) \div 2) + BytesOf(s, (lo + hi) \div 2 + 1, hi)

\* len(s)
Length(s) == BytesOf(s, 1, Len(s))

\* s[:n]: the runs that begin before byte n, the last one cut at n
Slice(s, n) ==
  LET before(i) == BytesOf(s, 1, i - 1)
      kept      == Cardinality({i \in 1..Len(s) : before(i) < n})
  IN  [i \in 1..kept |->
         IF before(i) + s[i].bytes <= n THEN s[i]
         ELSE [s[i] EXCEPT !.bytes = n - before(i)]]

\* html.EscapeString
EscapeString(s) == [i \in 1..Len(s) |-> [bytes |-> s[i].bytes * s[i].width, width |-> 1]]

\* commit.Date.Format(time.DateTime): "2006-01-02 15:04:05"
DateTime == Bytes(19)

\* one row of a table of commits
Row(base, commit) ==
  Text("|") \o DateTime \o Text("|[") \o base \o commit.Repo \o Text("@")
    \o Slice(commit.Hash, 7) \o Text("](https://github.com/") \o base \o commit.Repo
    \o Text("/commit/") \o commit.Hash \o Text(")|") \o commit.Author \o Text("|")
    \o commit.Message \o Text("|")

TableHead ==
  << Text("| Date | Commit | Author | Message |"),
     Text("| -    | -      | -      | -       |") >>

\* "This pull request is expected to merge ... efforts succeed."
Closing == Bytes(188)

\* the lines after the tables: the closing sentence between two empty lines
\* and one /cc line for every assignee
Footer(assign) ==
  << <<>>, Closing, <<>> >> \o [i \in 1..Len(assign) |-> Text("/cc @") \o assign[i]]

\* if len(body) >= 65536 { body = body[:65530] + "..." }
Cut(text) ==
  IF Length(text) >= 65536 THEN Slice(text, 65530) \o Text("...") ELSE text

GetBody(list, assign) ==
  LET lines == << Bytes(125), <<>> >> \o TableHead
                 \o [i \in 1..Len(list) |-> Row(Text("operator-framework/"), list[i])]
                 \o Footer(assign)
  IN  Cut(Join(lines, Newline))

GetBodyV1(to, list, assign) ==
  LET lines == << Bytes(81), <<>> >> \o TableHead
                 \o << Row(Text("operator-framework/"), to),
                       Text("||[upstream commit list](https://github.com/operator-framework/")
                         \o to.Repo \o Text("/commits/") \o to.Hash \o Text(")|||"),
                       <<>>, Bytes(80), <<>> >>
                 \o TableHead
                 \o [i \in 1..Len(list) |-> Row(Text("openshift/operator-framework-"), list[i])]
                 \o Footer(assign)
  IN  EscapeString(Cut(Join(lines, Newline)))

\* subjects of commits: short, a carry, one that fills the body, and a carry
\* that does
BodyMessages ==
  LET carry == Text("UPSTREAM: ") \o Special(1, 4) \o Text("carry") \o Special(1, 4)
                 \o Text(": fix bug")
  IN  {Text("fix bug"), carry, Bytes(LongMessage), carry \o Bytes(LongMessage)}

\* names of authors: plain, and with an apostrophe
BodyAuthors == {Text("A U Thor"), Text("O") \o Special(1, 5) \o Text("Brien")}

BodyCommits ==
  {[Repo |-> Text("catalogd"), Hash |-> Bytes(40), Author |-> author, Message |-> message] :
     author \in BodyAuthors, message \in BodyMessages}

\* the upstream commits a repository is updated to
BodyTargets == {commit \in BodyCommits : Length(commit.Message) < LongMessage}

\* strings.Split(opts.Assign, ","): never empty
AssignLists == {<< <<>> >>, <<Text("alice"), Text("bob")>>}

CallGetBody ==
  /\ pc = "body"
  /\ ret' = [called |-> TRUE, by |-> "GetBody", body |-> GetBody(arg.commits, arg.assign)]
  /\ pc' = "returned"
  /\ UNCHANGED <<ivars, evars, rvars, upstream, main, synchronize, version, v1opts, target,
                 pending, published, checkout, applied, replaced, pushedRepos, replayvars,
                 arg, cancelled>>

CallGetBodyV1 ==
  /\ pc = "body"
  /\ ret' = [called |-> TRUE, by |-> "GetBodyV1",
             body |-> GetBodyV1(arg.target, arg.commits, arg.assign)]
  /\ pc' = "returned"
  /\ UNCHANGED <<ivars, evars, rvars, upstream, main, synchronize, version, v1opts, target,
                 pending, published, checkout, applied, replaced, pushedRepos, replayvars,
                 arg, cancelled>>

InitBody ==
  /\ pc = "body"
  /\ run = 1
  /\ IdleV0
  /\ IdleV1
  /\ \E n \in 0..MaxRows :
       \E list \in [1..n -> BodyCommits], to \in BodyTargets, assign \in AssignLists :
         arg = [target |-> to, commits |-> list, assign |-> assign]
  /\ ret = NotCalled
  /\ cancelled = FALSE

NextBody == CallGetBody \/ CallGetBodyV1

SpecBody == InitBody /\ [][NextBody]_vars

(***************************************************************************)
(* C39.                                                                    *)
(***************************************************************************)
\* C39: the body that GetBody returns and the body that GetBodyV1 returns
\* are shorter than 65536 bytes, whatever the commits, their messages and
\* authors, and the assignees are.
C39_BodyShorterThanLimit ==
  ret.called => Length(ret.body) < 65536

(***************************************************************************)
(* C40.                                                                    *)
(***************************************************************************)
\* Run is at the switch on the mode or past it
AtModeSwitch ==
  pc \in {"tools", "apply", "gomod", "publish", "v1pr", "done", "failed"}

\* C40: RunBingo runs "bingo get" at most 6 times, one attempt after
\* another; the first attempt that succeeds is the last and RunBingo
\* returns nil; when all 6 fail it returns the error of the sixth and the
\* run ends; Run comes to the switch on the mode only after RunBingo has
\* returned nil.
C40_BingoAtMostSixTimes ==
  /\ ret.called =>
       /\ ret.attempts \in 1..6
       /\ ret.err \in {0, ret.attempts}
       /\ ret.err = 0 => pc # "v1detected"
       /\ (ret.err # 0 /\ pc # "v1detected") => (ret.attempts = 6 /\ pc = "fatal")
       /\ (ret.err # 0 /\ ret.attempts < 6) => pc = "v1detected"
  /\ AtModeSwitch => (ret.called /\ ret.err = 0)
  /\ ~ret.called => pc \in {"v1start", "v1catalogd", "v1detected", "fatal"}

\* a run got its tools at the sixth attempt and went on to publish
C40_Witness ==
  /\ pc = "done"
  /\ v1opts.mode = "publish"
  /\ published # {}
  /\ ret.called
  /\ ret.attempts = 6
  /\ ret.err = 0
  /\ ret.slept = 460
====
